---- MODULE Spec2Model ----
(***************************************************************************)
(* Linearised UVLM state-space engine (sharpy/linear/src/linuvlm.py):      *)
(* class Dynamic -- construction, assemble_ss, nondimss/dimss, solve_step, *)
(* balfreq.  Floating-point numbers are modelled as exact rationals        *)
(* <<numerator, denominator>> in lowest terms, so that "equal" below means *)
(* "equal in exact arithmetic" (the code's tests use tolerances of 1e-10   *)
(* to 1e-13 for the same comparisons).                                     *)
(***************************************************************************)
EXTENDS Integers, Sequences, FiniteSets, TLC

(* ---------------------------------------------------------------------- *)
(* Numbers: exact rationals <<n, d>>, d > 0, gcd(|n|, d) = 1               *)
(* ---------------------------------------------------------------------- *)

Abs(n) == IF n < 0 THEN -n ELSE n

RECURSIVE GCD(_, _)
GCD(a, b) == IF b = 0 THEN a ELSE GCD(b, a % b)

Rat(n, d) ==
  IF n = 0 THEN <<0, 1>>
  ELSE LET s == IF d < 0 THEN -1 ELSE 1
           g == GCD(Abs(n), Abs(d))
       IN <<(s * n) \div g, (s * d) \div g>>

RZero == <<0, 1>>
ROne == <<1, 1>>
RInt(n) == <<n, 1>>
RNeg(a) == <<-a[1], a[2]>>
RAdd(a, b) ==
  IF a[2] = 1 /\ b[2] = 1 THEN <<a[1] + b[1], 1>>
  ELSE IF a[1] = 0 THEN b
  ELSE IF b[1] = 0 THEN a
  ELSE IF a[2] = b[2] THEN Rat(a[1] + b[1], a[2])
  ELSE LET g == GCD(a[2], b[2])
       IN Rat(a[1] * (b[2] \div g) + b[1] * (a[2] \div g), (a[2] \div g) * b[2])
RSub(a, b) == RAdd(a, RNeg(b))
RMul(a, b) ==
  IF a[2] = 1 /\ b[2] = 1 THEN <<a[1] * b[1], 1>>
  ELSE IF a[1] = 0 \/ b[1] = 0 THEN RZero
  ELSE LET g == GCD(Abs(a[1]), b[2])
           h == GCD(Abs(b[1]), a[2])
       IN <<(a[1] \div g) * (b[1] \div h), (a[2] \div h) * (b[2] \div g)>>
\* division by zero is not a rational: the code would produce inf/nan
RDiv(a, b) == Rat(a[1] * b[2], a[2] * b[1])

(* ---------------------------------------------------------------------- *)
(* numpy arrays: a vector is a sequence of numbers, a matrix [r, c, v]     *)
(* with v[i][j] the entry of row i, column j (1-based)                      *)
(* ---------------------------------------------------------------------- *)

RECURSIVE Build(_, _, _)
\* the sequence <<f(lo), ..., f(hi)>>, every element evaluated
Build(f(_), lo, hi) ==
  IF lo > hi THEN <<>>
  ELSE IF lo = hi THEN <<f(lo)>>
  ELSE LET mid == (lo + hi) \div 2
       IN Build(f, lo, mid) \o Build(f, mid + 1, hi)

RECURSIVE SumR(_, _, _)
\* f(lo) + ... + f(hi)
SumR(f(_), lo, hi) ==
  IF lo > hi THEN RZero
  ELSE IF lo = hi THEN f(lo)
  ELSE LET mid == (lo + hi) \div 2
       IN RAdd(SumR(f, lo, mid), SumR(f, mid + 1, hi))

Vec(n, f(_)) == Build(f, 1, n)
Mat(r, c, f(_, _)) ==
  [r |-> r, c |-> c, v |-> Build(LAMBDA i : Build(LAMBDA j : f(i, j), 1, c), 1, r)]
zeros(r, c) == Mat(r, c, LAMBDA i, j : RZero)
eye(n) == Mat(n, n, LAMBDA i, j : IF i = j THEN ROne ELSE RZero)

\* f applied to the value of e (of e1 and e2): the operand is evaluated once, as
\* numpy evaluates the operands of an array operation before the operation
Bind(e, f(_)) == CHOOSE r \in { f(x) : x \in {e} } : TRUE
Bind2(e1, e2, f(_, _)) == CHOOSE r \in { f(x, y) : x \in {e1}, y \in {e2} } : TRUE

\* np.dot(M, x): matrix times vector
MatVec(M, x) ==
  Bind2(M, x, LAMBDA m, u :
    Vec(m.r, LAMBDA i : SumR(LAMBDA k : RMul(m.v[i][k], u[k]), 1, m.c)))
\* np.dot(P, Q): matrix times matrix
MatMul(P, Q) ==
  Bind2(P, Q, LAMBDA p, q :
    Mat(p.r, q.c, LAMBDA i, j : SumR(LAMBDA k : RMul(p.v[i][k], q.v[k][j]), 1, p.c)))
MatAdd(P, Q) ==
  Bind2(P, Q, LAMBDA p, q : Mat(p.r, p.c, LAMBDA i, j : RAdd(p.v[i][j], q.v[i][j])))
MatScale(s, P) ==
  Bind2(s, P, LAMBDA a, p : Mat(p.r, p.c, LAMBDA i, j : RMul(a, p.v[i][j])))
VecAdd(x, y) ==
  Bind2(x, y, LAMBDA u, w : Vec(Len(u), LAMBDA i : RAdd(u[i], w[i])))
VecSub(x, y) ==
  Bind2(x, y, LAMBDA u, w : Vec(Len(u), LAMBDA i : RSub(u[i], w[i])))

\* P with its column j (1-based) multiplied by f(j): the in-place  P[:, a:b] *= s
ColScale(P, f(_)) ==
  Bind(P, LAMBDA p : Mat(p.r, p.c, LAMBDA i, j : RMul(p.v[i][j], f(j))))
\* the in-place  P[:, a:b] /= s
ColDiv(P, f(_)) ==
  Bind(P, LAMBDA p : Mat(p.r, p.c, LAMBDA i, j : RDiv(p.v[i][j], f(j))))
MatDiv(P, s) ==
  Bind2(P, s, LAMBDA p, a : Mat(p.r, p.c, LAMBDA i, j : RDiv(p.v[i][j], a)))

\* the matrix without row i and column j
Minor(P, i, j) ==
  Bind(P, LAMBDA p :
    Mat(p.r - 1, p.c - 1,
        LAMBDA a, b : p.v[IF a < i THEN a ELSE a + 1][IF b < j THEN b ELSE b + 1]))

RECURSIVE Det(_)
Det(P) ==
  Bind(P, LAMBDA p :
    IF p.r = 0 THEN ROne
    ELSE IF p.r = 1 THEN p.v[1][1]
    ELSE SumR(LAMBDA j : RMul(IF j % 2 = 1 THEN p.v[1][j] ELSE RNeg(p.v[1][j]),
                              Det(Minor(p, 1, j))), 1, p.c))

\* scipy.linalg.lu_solve(lu_factor(P), Q) for a non-singular P: the solution X of P X = Q
lu_solve(P, Q) ==
  Bind(P, LAMBDA p :
    Bind(Det(p), LAMBDA d :
      MatMul(Mat(p.r, p.c,
                 LAMBDA i, j : RDiv(IF (i + j) % 2 = 0 THEN Det(Minor(p, j, i))
                                    ELSE RNeg(Det(Minor(p, j, i))), d)),
             Q)))

\* Gauss-Jordan elimination of the n rows R of an augmented matrix [A | b] from column
\* k on: <<the reduced rows>>, or <<>> when a column has no pivot (A is singular)
RECURSIVE Elim(_, _, _)
Elim(R, k, n) ==
  IF k > n THEN <<R>>
  ELSE Bind(R, LAMBDA rows :
    LET piv == { i \in k..n : rows[i][k] # RZero }
    IN IF piv = {} THEN <<>>
       ELSE Bind(CHOOSE i \in piv : \A j \in piv : i <= j, LAMBDA p :
            Bind(Vec(n + 1, LAMBDA c : RDiv(rows[p][c], rows[p][k])), LAMBDA prow :
              Elim(Build(LAMBDA i :
                           IF i = k THEN prow
                           ELSE Bind(rows[IF i = p THEN k ELSE i], LAMBDA row :
                                  IF row[k] = RZero THEN row
                                  ELSE Vec(n + 1, LAMBDA c :
                                             RSub(row[c], RMul(row[k], prow[c])))),
                         1, n),
                   k + 1, n))))

\* np.linalg.solve(A, b) / libsp.solve(A, b) for a vector b: <<x>> with A x = b, or <<>>
\* when A is singular (numpy raises LinAlgError)
linsolve(A, b) ==
  Bind2(A, b, LAMBDA a, rhs :
    Bind(Elim(Vec(a.r, LAMBDA i : Append(a.v[i], rhs[i])), 1, a.r), LAMBDA red :
      IF red = <<>> THEN <<>>
      ELSE <<Vec(a.r, LAMBDA i : red[1][i][a.r + 1])>>))

(* ---------------------------------------------------------------------- *)
(* complex numbers <<re, im>> with rational parts, and complex arrays       *)
(* ---------------------------------------------------------------------- *)

CZero == <<RZero, RZero>>
COne == <<ROne, RZero>>
CReal(a) == <<a, RZero>>
CNeg(a) == <<RNeg(a[1]), RNeg(a[2])>>
CAdd(a, b) == <<RAdd(a[1], b[1]), RAdd(a[2], b[2])>>
CSub(a, b) == <<RSub(a[1], b[1]), RSub(a[2], b[2])>>
CMul(a, b) ==
  IF a[2] = RZero /\ b[2] = RZero THEN <<RMul(a[1], b[1]), RZero>>
  ELSE <<RSub(RMul(a[1], b[1]), RMul(a[2], b[2])),
         RAdd(RMul(a[1], b[2]), RMul(a[2], b[1]))>>
CDiv(a, b) ==
  IF b[2] = RZero THEN <<RDiv(a[1], b[1]), RDiv(a[2], b[1])>>
  ELSE Bind(RAdd(RMul(b[1], b[1]), RMul(b[2], b[2])), LAMBDA n2 :
         <<RDiv(RAdd(RMul(a[1], b[1]), RMul(a[2], b[2])), n2),
           RDiv(RSub(RMul(a[2], b[1]), RMul(a[1], b[2])), n2)>>)

RECURSIVE CPow(_, _)
\* z**n for an integer n
CPow(z, n) ==
  IF n = 0 THEN COne
  ELSE IF n < 0 THEN CDiv(COne, CPow(z, -n))
  ELSE CMul(z, CPow(z, n - 1))

RECURSIVE CSum(_, _, _)
CSum(f(_), lo, hi) ==
  IF lo > hi THEN CZero
  ELSE IF lo = hi THEN f(lo)
  ELSE LET mid == (lo + hi) \div 2
       IN CAdd(CSum(f, lo, mid), CSum(f, mid + 1, hi))

\* a real array as a complex one
ToC(P) == Bind(P, LAMBDA p : Mat(p.r, p.c, LAMBDA i, j : CReal(p.v[i][j])))
CMatMul(P, Q) ==
  Bind2(P, Q, LAMBDA p, q :
    Mat(p.r, q.c, LAMBDA i, j : CSum(LAMBDA k : CMul(p.v[i][k], q.v[k][j]), 1, p.c)))
CMatAdd(P, Q) ==
  Bind2(P, Q, LAMBDA p, q : Mat(p.r, p.c, LAMBDA i, j : CAdd(p.v[i][j], q.v[i][j])))
CMatSub(P, Q) ==
  Bind2(P, Q, LAMBDA p, q : Mat(p.r, p.c, LAMBDA i, j : CSub(p.v[i][j], q.v[i][j])))
CMatScale(s, P) ==
  Bind2(s, P, LAMBDA a, p : Mat(p.r, p.c, LAMBDA i, j : CMul(a, p.v[i][j])))
\* z * np.eye(n)
CEye(z, n) == Mat(n, n, LAMBDA i, j : IF i = j THEN z ELSE CZero)

\* Gauss-Jordan elimination of the n rows R, each of width w, of an augmented complex
\* matrix [A | B] from column k on: <<the reduced rows>>, or <<>> when A is singular
RECURSIVE CElim(_, _, _, _)
CElim(R, k, n, w) ==
  IF k > n THEN <<R>>
  ELSE Bind(R, LAMBDA rows :
    LET piv == { i \in k..n : rows[i][k] # CZero }
    IN IF piv = {} THEN <<>>
       ELSE Bind(CHOOSE i \in piv : \A j \in piv : i <= j, LAMBDA p :
            Bind(Vec(w, LAMBDA c : CDiv(rows[p][c], rows[p][k])), LAMBDA prow :
              CElim(Build(LAMBDA i :
                            IF i = k THEN prow
                            ELSE Bind(rows[IF i = p THEN k ELSE i], LAMBDA row :
                                   IF row[k] = CZero THEN row
                                   ELSE Vec(w, LAMBDA c :
                                              CSub(row[c], CMul(row[k], prow[c])))),
                          1, n),
                    k + 1, n, w))))

\* np.linalg.solve(A, B) / libsp.solve(A, B) for complex matrices: <<X>> with
\* A X = B, or <<>> when A is singular
csolve(A, B) ==
  Bind2(A, B, LAMBDA a, b :
    Bind(CElim(Vec(a.r, LAMBDA i : a.v[i] \o b.v[i]), 1, a.r, a.c + b.c), LAMBDA red :
      IF red = <<>> THEN <<>>
      ELSE <<Mat(a.r, b.c, LAMBDA i, j : red[1][i][a.c + j])>>))

(* ---------------------------------------------------------------------- *)
(* The linearisation point (tsdata) and the lattice sizes                   *)
(* ---------------------------------------------------------------------- *)

VARIABLES
  tsdata,            \* aero timestep data: the lattice and the data its influence blocks derive from
  exists,            \* whether the Dynamic instance has been constructed
  dt, integr_order, Nx, Nu, Ny, remove_predictor, use_sparse, ScalingFacts, \* its fields (__init__)
  B_predictor,       \* the original B kept by assemble_ss ("None" until then)
  SS,                \* the state-space model [A, B, C, D, dt] ("None" until assemble_ss)
  SSb, T, gv, Zc, Zo,\* balfreq's results ("unset" until balfreq succeeds)
  Ti,                \* balfreq's local Ti of its last successful run (kept for inspection)
  SSb_shared,        \* the fields of SS whose array object is also a field of SSb
  Sta,               \* the Static instance of the same tsdata (None until constructed)
  ret,               \* what the last solve_steady or freqresp returned (None: nothing, it raised)
  rec,               \* the locals of a solve_steady(method='recursive') in its loop (None: not in it)
  printed,           \* what the last operation printed about its outcome (None: nothing)
  lin,               \* the LinearUVLM assembler instance (None until initialise succeeds)
  Freq,              \* the Frequency instance of the same tsdata (None until constructed)
  x_n, u_n, y_n,     \* the time-stepping caller's current state, input and last output
  twin_SS,           \* the direct-form model [A, B, C, D] of the same assembly (RemovePredictor=False)
  twin_x, twin_y,    \* state and last output of a caller marching twin_SS with the same inputs
  hist,              \* the states that caller has marched twin_SS through, oldest first
  caller_u,          \* the caller's input array object passed as u_n to the last solve_step
  controller,        \* the TakeOffTrajectoryController instance (None until initialise succeeds)
  controlled_state,  \* the time steps handed to control(): ['structural'].mb_dict (None: no multibody run)
  call,              \* the last operation called and the arguments that matter
  err,               \* the exception the last operation ended in ("none": it returned)
  pre,               \* the model SS as it was before the last nondimss()
  ncalls             \* number of operations called on the assembled instance

vars == <<tsdata, exists, dt, integr_order, Nx, Nu, Ny, remove_predictor, use_sparse,
          ScalingFacts, B_predictor, SS, SSb, T, gv, Zc, Zo, Ti, x_n, u_n, y_n,
          twin_SS, twin_x, twin_y, caller_u, call, err, pre, ncalls, SSb_shared,
          Sta, ret, rec, printed, lin, Freq, hist, controller, controlled_state>>

\* MultiAeroGridSurfaces: per surface s the panel counts M (chordwise), N (spanwise),
\* Mstar (wake, chordwise); the wake has the same N
n_surf == Len(tsdata.surfs)
MM(s) == tsdata.surfs[s].M
NN(s) == tsdata.surfs[s].N
MM_star(s) == tsdata.surfs[s].Mstar
KK(s) == MM(s) * NN(s)
KK_star(s) == MM_star(s) * NN(s)
KKzeta(s) == (MM(s) + 1) * (NN(s) + 1)

RECURSIVE SumN(_, _)
\* sum(f(1..n)) over naturals
SumN(f(_), n) == IF n = 0 THEN 0 ELSE SumN(f, n - 1) + f(n)

\* Static.__init__: total sizes
K == SumN(KK, n_surf)
K_star == SumN(KK_star, n_surf)
Kzeta == SumN(KKzeta, n_surf)

(* ---------------------------------------------------------------------- *)
(* Influence-coefficient blocks (sharpy.linear.src.assembly, interp): the   *)
(* provider is outside this code; a block is an opaque matrix of the shape  *)
(* the lattice gives it                                                     *)
(* ---------------------------------------------------------------------- *)

Coef(tag, i, j) == RInt(((tag * i + (tag + 2) * j + i * j) % 5) - 2)
Ext(tag, r, c) ==
  Mat(r, c, LAMBDA i, j : Coef(tag, i, j))

\* np.block(List_AICs): bound-on-bound influence, non-singular (diagonally dominant)
A0 ==
  Mat(K, K, LAMBDA i, j : IF i = j THEN RInt(K + 1) ELSE Coef(1, i, j))
\* the bound panel (1-based column of A0) at the trailing edge of the surface and
\* spanwise index of wake panel j, and the chordwise row (0-based) of wake panel j
TEofWake(j) ==
  LET s == CHOOSE t \in 1..n_surf :
             SumN(KK_star, t - 1) < j /\ j <= SumN(KK_star, t)
      l == j - SumN(KK_star, s - 1)
  IN SumN(KK, s - 1) + NN(s) * (MM(s) - 1) + ((l - 1) % NN(s)) + 1
WakeRow(j) ==
  LET s == CHOOSE t \in 1..n_surf :
             SumN(KK_star, t - 1) < j /\ j <= SumN(KK_star, t)
  IN (j - SumN(KK_star, s - 1) - 1) \div NN(s)

\* np.block(List_AICs_star): wake-on-bound influence.  tsdata.wake names the wake the
\* linearisation point has: "regular"; "none" (no influence on the bound panels);
\* "marginal" (the first wake row acts on the bound panels as the trailing edge does);
\* "singular" (the first wake row cancels the trailing edge)
A0W ==
  IF tsdata.wake = "regular" THEN Ext(2, K, K_star)
  ELSE IF tsdata.wake = "none" THEN zeros(K, K_star)
  ELSE Bind(A0, LAMBDA a :
         Mat(K, K_star, LAMBDA i, j :
               IF WakeRow(j) # 0 THEN RZero
               ELSE IF tsdata.wake = "marginal" THEN a.v[i][TEofWake(j)]
               ELSE RNeg(a.v[i][TEofWake(j)])))
Ducdzeta == Ext(3, K, 3 * Kzeta)
Wnv == Ext(4, K, 3 * Kzeta)
Dfqsdgamma == Ext(5, 3 * Kzeta, K)
Dfqsdgamma_star == Ext(6, 3 * Kzeta, K_star)
Dfunstdgamma_dot == Ext(7, 3 * Kzeta, K)
Dfqsdzeta == Ext(8, 3 * Kzeta, 3 * Kzeta)
Dfqsduinput == Ext(9, 3 * Kzeta, 3 * Kzeta)

\* first panel index (0-based offset) of surface s in the bound / wake numbering
K0(s) == SumN(KK, s - 1)
K0star(s) == SumN(KK_star, s - 1)
\* the surface a wake panel index (1-based) belongs to
SurfOfWake(i) == CHOOSE s \in 1..n_surf : K0star(s) < i /\ i <= K0star(s) + KK_star(s)

\* ass.wake_prop: the shift kernel.  Cgamma (K_star x K): the first wake row of a
\* surface takes the trailing-edge bound panel of the same spanwise index
Cgamma ==
  Mat(K_star, K, LAMBDA i, j :
      LET s == SurfOfWake(i)
          l == i - K0star(s)          \* 1..Mstar*N within the surface, row-major
      IN IF l <= NN(s) /\ j = K0(s) + NN(s) * (MM(s) - 1) + l THEN ROne ELSE RZero)
\* CgammaW (K_star x K_star): wake row m > 0 takes wake row m-1, same spanwise index
CgammaW ==
  Mat(K_star, K_star, LAMBDA i, j :
      LET s == SurfOfWake(i)
          l == i - K0star(s)
      IN IF l > NN(s) /\ j = i - NN(s) THEN ROne ELSE RZero)

(* ---------------------------------------------------------------------- *)
(* Dynamic.__init__                                                         *)
(* ---------------------------------------------------------------------- *)

None == <<>>
Some(v) == <<v>>

\* the first-order coefficient of the current step taken for the second-order one
b0_first_order == RInt(-1)

\* second-order differencing coefficients b0, bm1, bp1 = -2., 0.5, 1.5
b0 == RInt(-2)
bm1 == <<1, 2>>
bp1 == <<3, 2>>

\* a constructor that sizes every model as a first-order one
InitNx_first_order(order) == 2 * K + K_star

\* state count for a supported integration order
InitNx(order) == IF order = 1 THEN 2 * K + K_star ELSE 3 * K + K_star
InitNy == 3 * Kzeta
InitNu == 3 * InitNy

\* the scaling quantities derived from the three fundamental reference units
InitScalingFacts(sd) ==
  LET dyn_pressure == RMul(RMul(<<1, 2>>, sd.density), RMul(sd.speed, sd.speed))
  IN [length |-> sd.length, speed |-> sd.speed, density |-> sd.density,
      time |-> RDiv(sd.length, sd.speed),
      circulation |-> RMul(sd.speed, sd.length),
      dyn_pressure |-> dyn_pressure,
      force |-> RMul(dyn_pressure, RMul(sd.length, sd.length))]

\* ScalingDict=None
DefaultScalingDict == [length |-> ROne, speed |-> ROne, density |-> ROne]

(* ---------------------------------------------------------------------- *)
(* class Static: __init__, assemble, solve                                  *)
(* An instance is a record; an attribute the code has not set yet is None.   *)
(* ---------------------------------------------------------------------- *)

\* Static.__init__: zero input perturbation, nothing assembled or solved
Static_init ==
  [zeta |-> Vec(3 * Kzeta, LAMBDA i : RZero),
   zeta_dot |-> Vec(3 * Kzeta, LAMBDA i : RZero),
   u_ext |-> Vec(3 * Kzeta, LAMBDA i : RZero),
   assembled |-> FALSE,
   gamma |-> None, fqs |-> None, Gamma |-> None, Fqs |-> None,
   Ftot |-> None, Kftot |-> None]

\* the surface a bound panel index (1-based) belongs to
SurfOfBound(j) == CHOOSE s \in 1..n_surf : K0(s) < j /\ j <= K0(s) + KK(s)

\* a steady influence matrix without the wake folded in
AIC_without_wake == A0

\* Static.assemble: self.AIC, the bound influence with the wake influence folded in.
\* Per pair of surfaces, the wake block is summed along the chord at each spanwise
\* index and added onto the last N_star columns of the bound block
AIC ==
  Bind2(A0, A0W, LAMBDA a, w :
    Mat(K, K, LAMBDA i, j :
          LET s == SurfOfBound(j)
              jj == j - K0(s) - NN(s) * (MM(s) - 1)    \* 1..N on the trailing edge
          IN IF jj < 1 THEN a.v[i][j]
             ELSE RAdd(a.v[i][j],
                       SumR(LAMBDA mm : w.v[i][K0star(s) + mm * NN(s) + jj],
                            0, MM_star(s) - 1))))

\* the wake circulation Static.solve and solve_steady('minsize') retrieve from a bound
\* circulation: per surface, Mstar copies of the trailing-edge row
gamma_star_of(gamma) ==
  Bind(gamma, LAMBDA g : Vec(K_star, LAMBDA j : g[TEofWake(j)]))

\* a solve that stores a circulation even when the influence matrix is singular
Static_solve_unguarded(sta) ==
  LET rel == VecSub(sta.u_ext, sta.zeta_dot)
      bv == VecAdd(MatVec(Wnv, rel), MatVec(Ducdzeta, sta.zeta))
      sol == linsolve(AIC, Vec(K, LAMBDA i : RNeg(bv[i])))
      g == IF sol = <<>> THEN Vec(K, LAMBDA i : RZero) ELSE sol[1]
      fqs == VecAdd(VecAdd(MatVec(Dfqsdgamma, g), MatVec(Dfqsdgamma_star, gamma_star_of(g))),
                    VecAdd(MatVec(Dfqsdzeta, sta.zeta), MatVec(Dfqsduinput, rel)))
  IN [err |-> IF sol = <<>> THEN "LinAlgError" ELSE "none",
      sta |-> [sta EXCEPT !.gamma = Some(g), !.fqs = Some(fqs)]]

\* Static.solve on an assembled instance: the exception it ends in and the instance
\* as it leaves it
Static_solve(sta) ==
  Bind(VecSub(sta.u_ext, sta.zeta_dot), LAMBDA rel :
    Bind(VecAdd(MatVec(Wnv, rel), MatVec(Ducdzeta, sta.zeta)), LAMBDA bv :
      Bind(linsolve(AIC, Vec(K, LAMBDA i : RNeg(bv[i]))), LAMBDA sol :
        IF sol = <<>>
        THEN [err |-> "LinAlgError", sta |-> sta]     \* raised before self.gamma is set
        ELSE Bind(sol[1], LAMBDA g :
               [err |-> "none",
                sta |-> [sta EXCEPT
                   !.gamma = Some(g),
                   !.fqs = Some(VecAdd(VecAdd(MatVec(Dfqsdgamma, g),
                                              MatVec(Dfqsdgamma_star, gamma_star_of(g))),
                                       VecAdd(MatVec(Dfqsdzeta, sta.zeta),
                                              MatVec(Dfqsduinput, rel))))]]))))

\* Static.reshape: per surface, gamma as (M, N) and fqs as (3, M + 1, N + 1), row-major
Static_reshape(sta) ==
  IF sta.gamma = None \/ sta.fqs = None
  THEN [err |-> "NameError", sta |-> sta]
  ELSE Bind2(sta.gamma[1], sta.fqs[1], LAMBDA g, f :
         [err |-> "none",
          sta |-> [sta EXCEPT
            !.Gamma = Some([ss \in 1..n_surf |->
                        Vec(MM(ss), LAMBDA m : Vec(NN(ss), LAMBDA n :
                          g[K0(ss) + (m - 1) * NN(ss) + n]))]),
            !.Fqs = Some([ss \in 1..n_surf |->
                        LET Kzeta_tot == 3 * SumN(LAMBDA t : KKzeta(t), ss - 1)
                        IN Vec(3, LAMBDA cc : Vec(MM(ss) + 1, LAMBDA mm :
                             Vec(NN(ss) + 1, LAMBDA nn :
                               f[Kzeta_tot + (cc - 1) * (MM(ss) + 1) * (NN(ss) + 1)
                                   + (mm - 1) * (NN(ss) + 1) + nn])))])]])

\* Static.total_forces: Ftot accumulates the force of every vertex of every surface;
\* Gamma and Fqs are reshaped first only when the instance has none.  (Mtot takes the
\* vertex positions of the lattice, which no property here reads.)
Static_total_forces(sta) ==
  Bind(IF sta.Gamma = None \/ sta.Fqs = None THEN Static_reshape(sta)
       ELSE [err |-> "none", sta |-> sta], LAMBDA r :
    IF r.err # "none" THEN r
    ELSE Bind(r.sta.Fqs[1], LAMBDA F :
           [err |-> "none",
            sta |-> [r.sta EXCEPT !.Ftot =
               Some(Vec(3, LAMBDA cc :
                 SumR(LAMBDA ss :
                   SumR(LAMBDA nn :
                     SumR(LAMBDA mm : F[ss][cc][mm][nn], 1, MM(ss) + 1),
                     1, NN(ss) + 1),
                   1, n_surf)))]]))

\* np.ravel_multi_index((cc, mm, nn), (3, M + 1, N + 1)), 0-based
ravel_multi_index(cc, mm, nn, ss) ==
  cc * (MM(ss) + 1) * (NN(ss) + 1) + mm * (NN(ss) + 1) + nn

\* a column offset that advances by the vertices of a surface, not by their components
Kzeta_start_per_vertex(ss) == SumN(LAMBDA t : KKzeta(t), ss - 1)

\* Kzeta_start when the loop of get_total_forces_gain is at surface ss
Kzeta_start(ss) == 3 * SumN(LAMBDA t : KKzeta(t), ss - 1)

\* Static.get_total_forces_gain: Kftot[[0, 1, 2], jjvec] = 1 for every vertex of every
\* surface.  (Kmtot and Kmtot_disp take the lattice's vertex positions and forces.)
Static_get_total_forces_gain(sta) ==
  [sta EXCEPT !.Kftot =
     Some(Mat(3, 3 * Kzeta, LAMBDA cc, j :
       IF \E ss \in 1..n_surf : \E nn \in 0..NN(ss) : \E mm \in 0..MM(ss) :
            j = Kzeta_start(ss) + ravel_multi_index(cc - 1, mm, nn, ss) + 1
       THEN ROne ELSE RZero))]

(* ---------------------------------------------------------------------- *)
(* Dynamic.assemble_ss                                                      *)
(* ---------------------------------------------------------------------- *)

\* recurrent dense terms
AinvAW == lu_solve(A0, A0W)
AinvAWCgamma == MatScale(RInt(-1), MatMul(AinvAW, Cgamma))
AinvAWCgammaW == MatScale(RInt(-1), MatMul(AinvAW, CgammaW))

\* every block assignment of assemble_ss addresses rows and columns the (Nx, Nx),
\* (Nx, Nu), (Ny, Nx), (Ny, Nu) arrays have (numpy raises otherwise)
AssembleFits ==
  /\ (IF integr_order = 2 THEN 3 * K + K_star ELSE 2 * K + K_star) <= Nx
  /\ Nu = 9 * Kzeta
  /\ Ny = 3 * Kzeta

\* an assembly that leaves out the wake-to-wake block Ass[K:K + K_star, K:K + K_star]
Ass_without_wake_shift ==
  Bind2(AinvAWCgamma, AinvAWCgammaW, LAMBDA P, Pw : Bind2(Cgamma, CgammaW, LAMBDA C, Cw :
  LET entry(i, j) ==
        IF i <= K THEN
          (IF j <= K THEN P.v[i][j]
           ELSE IF j <= K + K_star THEN Pw.v[i][j - K] ELSE RZero)
        ELSE IF i <= K + K_star THEN
          (IF j <= K THEN C.v[i - K][j]
           ELSE RZero)
        ELSE IF i <= 2 * K + K_star THEN
          \* delta eq.
          LET ii == i - K - K_star
          IN IF integr_order = 1 THEN
               (IF j <= K THEN RSub(P.v[ii][j], IF ii = j THEN ROne ELSE RZero)
                ELSE IF j <= K + K_star THEN Pw.v[ii][j - K] ELSE RZero)
             ELSE
               (IF j <= K THEN RAdd(RMul(bp1, P.v[ii][j]), IF ii = j THEN b0 ELSE RZero)
                ELSE IF j <= K + K_star THEN RMul(bp1, Pw.v[ii][j - K])
                ELSE IF j > 2 * K + K_star /\ j - (2 * K + K_star) = ii THEN bm1
                ELSE RZero)
        ELSE
          \* identity eq. (integr_order 2)
          IF integr_order = 2 /\ j <= K /\ j = i - (2 * K + K_star) THEN ROne ELSE RZero
  IN Mat(Nx, Nx, LAMBDA i, j : entry(i, j))))

\* A matrix assembly
Ass ==
  Bind2(AinvAWCgamma, AinvAWCgammaW, LAMBDA P, Pw : Bind2(Cgamma, CgammaW, LAMBDA C, Cw :
  LET entry(i, j) ==
        IF i <= K THEN
          (IF j <= K THEN P.v[i][j]
           ELSE IF j <= K + K_star THEN Pw.v[i][j - K] ELSE RZero)
        ELSE IF i <= K + K_star THEN
          (IF j <= K THEN C.v[i - K][j]
           ELSE IF j <= K + K_star THEN Cw.v[i - K][j - K] ELSE RZero)
        ELSE IF i <= 2 * K + K_star THEN
          \* delta eq.
          LET ii == i - K - K_star
          IN IF integr_order = 1 THEN
               (IF j <= K THEN RSub(P.v[ii][j], IF ii = j THEN ROne ELSE RZero)
                ELSE IF j <= K + K_star THEN Pw.v[ii][j - K] ELSE RZero)
             ELSE
               (IF j <= K THEN RAdd(RMul(bp1, P.v[ii][j]), IF ii = j THEN b0 ELSE RZero)
                ELSE IF j <= K + K_star THEN RMul(bp1, Pw.v[ii][j - K])
                ELSE IF j > 2 * K + K_star /\ j - (2 * K + K_star) = ii THEN bm1
                ELSE RZero)
        ELSE
          \* identity eq. (integr_order 2)
          IF integr_order = 2 /\ j <= K /\ j = i - (2 * K + K_star) THEN ROne ELSE RZero
  IN Mat(Nx, Nx, LAMBDA i, j : entry(i, j))))

\* B matrix assembly: Bup = [-A0^-1 Ducdzeta, A0^-1 Wnv0, -A0^-1 Wnv0]
Bup ==
  Bind2(lu_solve(A0, Ducdzeta), lu_solve(A0, Wnv), LAMBDA AinvD, AinvWnv0 :
    Mat(K, 9 * Kzeta, LAMBDA i, j :
               IF j <= 3 * Kzeta THEN RNeg(AinvD.v[i][j])
               ELSE IF j <= 6 * Kzeta THEN AinvWnv0.v[i][j - 3 * Kzeta]
               ELSE RNeg(AinvWnv0.v[i][j - 6 * Kzeta])))

\* variant: the input does not enter the circulation-derivative rows
Bss_without_delta_rows ==
  Bind(Bup, LAMBDA bup :
    Mat(Nx, Nu, LAMBDA i, j : IF i <= K THEN bup.v[i][j] ELSE RZero))

Bss ==
  Bind(Bup, LAMBDA bup :
    Mat(Nx, Nu, LAMBDA i, j :
               IF i <= K THEN bup.v[i][j]
               ELSE IF i > K + K_star /\ i <= 2 * K + K_star THEN
                 (IF integr_order = 1 THEN bup.v[i - K - K_star][j]
                  ELSE RMul(bp1, bup.v[i - K - K_star][j]))
               ELSE RZero))

\* C matrix assembly (include_added_mass is True)
Css ==
  Bind2(Dfqsdgamma, Dfqsdgamma_star, LAMBDA G, Gs : Bind(Dfunstdgamma_dot, LAMBDA Gd :
    Mat(Ny, Nx, LAMBDA i, j :
               IF j <= K THEN G.v[i][j]
               ELSE IF j <= K + K_star THEN Gs.v[i][j - K]
               ELSE IF j <= 2 * K + K_star THEN RDiv(Gd.v[i][j - K - K_star], dt)
               ELSE RZero)))

\* a D whose vertex-velocity block has the sign of the external-velocity block
Dss_velocity_blocks_same_sign ==
  Bind2(Dfqsdzeta, Dfqsduinput, LAMBDA Z, W :
    Mat(Ny, Nu, LAMBDA i, j :
               IF j <= 3 * Kzeta THEN Z.v[i][j]
               ELSE IF j <= 6 * Kzeta THEN W.v[i][j - 3 * Kzeta]
               ELSE W.v[i][j - 6 * Kzeta]))

\* D matrix assembly
Dss ==
  Bind2(Dfqsdzeta, Dfqsduinput, LAMBDA Z, W :
    Mat(Ny, Nu, LAMBDA i, j :
               IF j <= 3 * Kzeta THEN Z.v[i][j]
               ELSE IF j <= 6 * Kzeta THEN RNeg(W.v[i][j - 3 * Kzeta])
               ELSE W.v[i][j - 6 * Kzeta]))

\* libss.ss(A, B, C, D, dt)
ss(A, B, C, D, dt_) ==
  Bind2(A, B, LAMBDA a, b : Bind(C, LAMBDA c :
    [A |-> a, B |-> b, C |-> c, D |-> D, dt |-> dt_,
     states |-> a.r, inputs |-> b.c, outputs |-> c.r]))

\* the arguments of libss.ss whose array object the model it builds keeps as its own
\* field: none, a model owns its matrices
ss_shares == {}

\* libss.SSconv(A, None, B, C, D): the state substitution h = x - B u removing the
\* predictor term; the modified B and D
SSconv_B(A, B) == MatMul(A, B)
SSconv_D(B, C, D) == MatAdd(MatMul(C, B), D)

\* the model and B_predictor that assemble_ss leaves on the instance
assemble_ss_SS ==
  Bind2(Ass, Bss, LAMBDA A, B : Bind2(Css, Dss, LAMBDA C, D :
    IF remove_predictor
    THEN [SS |-> ss(A, SSconv_B(A, B), C, SSconv_D(B, C, D), dt), B_predictor |-> Some(B),
          direct |-> ss(A, B, C, D, dt)]
    ELSE [SS |-> ss(A, B, C, D, dt), B_predictor |-> None, direct |-> ss(A, B, C, D, dt)]))

(* ---------------------------------------------------------------------- *)
(* Dynamic.nondimss / Dynamic.dimss: in-place scaling of self.SS            *)
(* ---------------------------------------------------------------------- *)

\* a scaling that applies the position factor to every column of B
nondimss_one_factor(m, SF) ==
  LET Bpos == RDiv(SF.length, SF.circulation)
      Cfac == RDiv(SF.circulation, SF.force)
      Dpos == RDiv(SF.length, SF.force)
      Dvel == RDiv(SF.speed, SF.force)
      fB(j) == Bpos
      fD(j) == IF j <= 3 * Kzeta THEN Dpos ELSE Dvel
  IN [m EXCEPT !.B = ColScale(@, fB),
               !.C = MatScale(Cfac, @),
               !.D = ColScale(@, fD),
               !.dt = RDiv(@, SF.time)]

\* an inverse scaling that does not restore the time step
dimss_keeps_dt(m, SF) ==
  LET Bpos == RDiv(SF.length, SF.circulation)
      Bvel == RDiv(SF.speed, SF.circulation)
      Cfac == RDiv(SF.circulation, SF.force)
      Dpos == RDiv(SF.length, SF.force)
      Dvel == RDiv(SF.speed, SF.force)
      fB(j) == IF j <= 3 * Kzeta THEN Bpos ELSE Bvel
      fD(j) == IF j <= 3 * Kzeta THEN Dpos ELSE Dvel
  IN [m EXCEPT !.B = ColDiv(@, fB),
               !.C = MatDiv(@, Cfac),
               !.D = ColDiv(@, fD)]

nondimss(m, SF) ==
  LET Bpos == RDiv(SF.length, SF.circulation)
      Bvel == RDiv(SF.speed, SF.circulation)
      Cfac == RDiv(SF.circulation, SF.force)
      Dpos == RDiv(SF.length, SF.force)
      Dvel == RDiv(SF.speed, SF.force)
      fB(j) == IF j <= 3 * Kzeta THEN Bpos ELSE Bvel
      fD(j) == IF j <= 3 * Kzeta THEN Dpos ELSE Dvel
  IN [m EXCEPT !.B = ColScale(@, fB),
               !.C = MatScale(Cfac, @),
               !.D = ColScale(@, fD),
               !.dt = RDiv(@, SF.time)]

dimss(m, SF) ==
  LET Bpos == RDiv(SF.length, SF.circulation)
      Bvel == RDiv(SF.speed, SF.circulation)
      Cfac == RDiv(SF.circulation, SF.force)
      Dpos == RDiv(SF.length, SF.force)
      Dvel == RDiv(SF.speed, SF.force)
      fB(j) == IF j <= 3 * Kzeta THEN Bpos ELSE Bvel
      fD(j) == IF j <= 3 * Kzeta THEN Dpos ELSE Dvel
  IN [m EXCEPT !.B = ColDiv(@, fB),
               !.C = MatDiv(@, Cfac),
               !.D = ColDiv(@, fD),
               !.dt = RMul(@, SF.time)]

(* ---------------------------------------------------------------------- *)
(* Dynamic.solve_step(x_n, u_n, u_n1=None, transform_state=False)           *)
(* self: [remove_predictor, SS, B_predictor]; u1: None or Some(vector).     *)
(* Returns the new state and output, and the caller's u_n array as the call *)
(* leaves it.                                                               *)
(* ---------------------------------------------------------------------- *)

\* a predictor-removed step that takes the passed state as h even when asked to convert it
solve_step_no_entry_conversion(self, x, u, u1, transform_state) ==
  LET u_n1 == IF u1 = None THEN u ELSE u1[1]
  IN IF self.remove_predictor
     THEN LET h_n == x
              h_n1 == VecAdd(MatVec(self.SS.A, h_n), MatVec(self.SS.B, u))
              y_n1 == VecAdd(MatVec(self.SS.C, h_n1), MatVec(self.SS.D, u_n1))
              x_n1 == IF transform_state
                        THEN VecAdd(h_n1, MatVec(self.B_predictor[1], u_n1))
                        ELSE h_n1
          IN [x_n1 |-> x_n1, y_n1 |-> y_n1, u_n |-> u]
     ELSE LET x_n1 == VecAdd(MatVec(self.SS.A, x), MatVec(self.SS.B, u_n1))
              y_n1 == VecAdd(MatVec(self.SS.C, x_n1), MatVec(self.SS.D, u_n1))
          IN [x_n1 |-> x_n1, y_n1 |-> y_n1, u_n |-> u]

\* a direct-form step whose state update reads the current input u_n
solve_step_state_from_u_n(self, x, u, u1, transform_state) ==
  LET u_n1 == IF u1 = None THEN u ELSE u1[1]
  IN IF self.remove_predictor
     THEN LET h_n == IF transform_state
                       THEN VecSub(x, MatVec(self.B_predictor[1], u))
                       ELSE x
              h_n1 == VecAdd(MatVec(self.SS.A, h_n), MatVec(self.SS.B, u))
              y_n1 == VecAdd(MatVec(self.SS.C, h_n1), MatVec(self.SS.D, u_n1))
              x_n1 == IF transform_state
                        THEN VecAdd(h_n1, MatVec(self.B_predictor[1], u_n1))
                        ELSE h_n1
          IN [x_n1 |-> x_n1, y_n1 |-> y_n1, u_n |-> u]
     ELSE LET x_n1 == VecAdd(MatVec(self.SS.A, x), MatVec(self.SS.B, u))
              y_n1 == VecAdd(MatVec(self.SS.C, x_n1), MatVec(self.SS.D, u_n1))
          IN [x_n1 |-> x_n1, y_n1 |-> y_n1, u_n |-> u]

\* a predictor-removed step that converts the returned state with the current input u_n
solve_step_back_with_u_n(self, x, u, u1, transform_state) ==
  LET u_n1 == IF u1 = None THEN u ELSE u1[1]
  IN IF self.remove_predictor
     THEN LET h_n == IF transform_state
                       THEN VecSub(x, MatVec(self.B_predictor[1], u))
                       ELSE x
              h_n1 == VecAdd(MatVec(self.SS.A, h_n), MatVec(self.SS.B, u))
              y_n1 == VecAdd(MatVec(self.SS.C, h_n1), MatVec(self.SS.D, u_n1))
              x_n1 == IF transform_state
                        THEN VecAdd(h_n1, MatVec(self.B_predictor[1], u))
                        ELSE h_n1
          IN [x_n1 |-> x_n1, y_n1 |-> y_n1, u_n |-> u]
     ELSE LET x_n1 == VecAdd(MatVec(self.SS.A, x), MatVec(self.SS.B, u_n1))
              y_n1 == VecAdd(MatVec(self.SS.C, x_n1), MatVec(self.SS.D, u_n1))
          IN [x_n1 |-> x_n1, y_n1 |-> y_n1, u_n |-> u]

\* a step whose omitted next input defaults to zero
solve_step_default_zero(self, x, u, u1, transform_state) ==
  LET u_n1 == IF u1 = None THEN Vec(Len(u), LAMBDA j : RZero) ELSE u1[1]
  IN IF self.remove_predictor
     THEN LET h_n == IF transform_state
                       THEN VecSub(x, MatVec(self.B_predictor[1], u))
                       ELSE x
              h_n1 == VecAdd(MatVec(self.SS.A, h_n), MatVec(self.SS.B, u))
              y_n1 == VecAdd(MatVec(self.SS.C, h_n1), MatVec(self.SS.D, u_n1))
              x_n1 == IF transform_state
                        THEN VecAdd(h_n1, MatVec(self.B_predictor[1], u_n1))
                        ELSE h_n1
          IN [x_n1 |-> x_n1, y_n1 |-> y_n1, u_n |-> u]
     ELSE LET x_n1 == VecAdd(MatVec(self.SS.A, x), MatVec(self.SS.B, u_n1))
              y_n1 == VecAdd(MatVec(self.SS.C, x_n1), MatVec(self.SS.D, u_n1))
          IN [x_n1 |-> x_n1, y_n1 |-> y_n1, u_n |-> u]

solve_step(self, x, u, u1, transform_state) ==
  LET u_n1 == IF u1 = None THEN u ELSE u1[1]     \* u_n.copy()
  IN IF self.remove_predictor
     THEN LET h_n == IF transform_state
                       THEN VecSub(x, MatVec(self.B_predictor[1], u))
                       ELSE x
              h_n1 == VecAdd(MatVec(self.SS.A, h_n), MatVec(self.SS.B, u))
              y_n1 == VecAdd(MatVec(self.SS.C, h_n1), MatVec(self.SS.D, u_n1))
              x_n1 == IF transform_state
                        THEN VecAdd(h_n1, MatVec(self.B_predictor[1], u_n1))
                        ELSE h_n1
          IN [x_n1 |-> x_n1, y_n1 |-> y_n1, u_n |-> u]
     ELSE LET x_n1 == VecAdd(MatVec(self.SS.A, x), MatVec(self.SS.B, u_n1))
              y_n1 == VecAdd(MatVec(self.SS.C, x_n1), MatVec(self.SS.D, u_n1))
          IN [x_n1 |-> x_n1, y_n1 |-> y_n1, u_n |-> u]

(* ---------------------------------------------------------------------- *)
(* Dynamic.solve_steady(usta, method)                                       *)
(* self: [remove_predictor, use_sparse, integr_order, SS].  The result is    *)
(* [err, ret]: the exception raised ("none": it returned) and the returned   *)
(* pair Some([xsta, ysta]).                                                  *)
(* ---------------------------------------------------------------------- *)

\* M[r0:r0+nr, c0:c0+nc] (numpy's 0-based offsets)
Slice(M, r0, nr, c0, nc) ==
  Bind(M, LAMBDA m : Mat(nr, nc, LAMBDA i, j : m.v[r0 + i][c0 + j]))

\* np.eye(n) - M
EyeMinus(M) ==
  Bind(M, LAMBDA m :
    Mat(m.r, m.c, LAMBDA i, j : RSub(IF i = j THEN ROne ELSE RZero, m.v[i][j])))

\* guards that let every method run on a model stored sparse
solve_steady_guard_predictor_only(self, method) ==
  IF self.remove_predictor /\ method # "direct" THEN "NameError"
  ELSE IF method \notin {"minsize", "direct", "recursive", "subsystem"} THEN "NameError"
  ELSE "none"

\* the guards every method passes first
solve_steady_guard(self, method) ==
  IF self.remove_predictor /\ method # "direct" THEN "NameError"
  ELSE IF self.use_sparse /\ method # "direct" THEN "NameError"
  ELSE IF method \notin {"minsize", "direct", "recursive", "subsystem"} THEN "NameError"
  ELSE "none"

\* ysta = np.dot(Css, xsta) + np.dot(Dss, usta)
steady_output(m, xsta, usta) == VecAdd(MatVec(m.C, xsta), MatVec(m.D, usta))

\* method 'direct': (I - A) x = B u
solve_steady_direct(self, usta) ==
  Bind(self.SS, LAMBDA m :
    Bind(linsolve(EyeMinus(m.A), MatVec(m.B, usta)), LAMBDA sol :
      IF sol = <<>> THEN [err |-> "LinAlgError", ret |-> None]
      ELSE [err |-> "none",
            ret |-> Some([xsta |-> sol[1], ysta |-> steady_output(m, sol[1], usta)])]))

\* method 'minsize': the K x K system for the bound circulation, the wake folded in
solve_steady_minsize(self, usta) ==
  Bind(self.SS, LAMBDA m :
    Bind2(Slice(m.A, 0, K, K, K_star), Slice(m.A, K, K_star, 0, K), LAMBDA Pw, C :
      Bind2(MatMul(Pw, Slice(m.A, K, K_star, K, K_star)),
            MatAdd(EyeMinus(Slice(m.A, 0, K, 0, K)), MatScale(RInt(-1), MatMul(Pw, C))),
            LAMBDA PwCw, aic0 :
        Bind(Mat(K, K, LAMBDA i, j :
                   LET s == SurfOfBound(j)
                       jj == j - K0(s) - NN(s) * (MM(s) - 1)
                   IN IF jj < 1 THEN aic0.v[i][j]
                      ELSE RSub(aic0.v[i][j],
                                SumR(LAMBDA mm : PwCw.v[i][K0star(s) + mm * NN(s) + jj],
                                     0, MM_star(s) - 1))),
             LAMBDA aic :
          Bind(linsolve(aic, MatVec(Slice(m.B, 0, K, 0, m.B.c), usta)), LAMBDA sol :
            IF sol = <<>> THEN [err |-> "LinAlgError", ret |-> None]
            ELSE Bind(sol[1] \o gamma_star_of(sol[1]) \o Vec(K, LAMBDA i : RZero)
                        \o (IF self.integr_order = 2 THEN sol[1] ELSE <<>>),
                      LAMBDA xsta :
                   [err |-> "none",
                    ret |-> Some([xsta |-> xsta,
                                  ysta |-> steady_output(m, xsta, usta)])]))))))

\* method 'subsystem': the sub-system of the Gamma, Gamma_w states only; the other
\* blocks of xsta are zeros
solve_steady_subsystem(self, usta) ==
  Bind(self.SS, LAMBDA m :
    Bind(linsolve(EyeMinus(Slice(m.A, 0, K + K_star, 0, K + K_star)),
                  MatVec(Slice(m.B, 0, K + K_star, 0, m.B.c), usta)), LAMBDA sol :
      IF sol = <<>> THEN [err |-> "LinAlgError", ret |-> None]
      ELSE Bind(sol[1] \o Vec(IF self.integr_order = 2 THEN 2 * K ELSE K, LAMBDA i : RZero),
                LAMBDA xsta :
             [err |-> "none",
              ret |-> Some([xsta |-> xsta, ysta |-> steady_output(m, xsta, usta)])])))

\* the methods that return in one pass
solve_steady(self, usta, method) ==
  IF solve_steady_guard(self, method) # "none"
    THEN [err |-> solve_steady_guard(self, method), ret |-> None]
  ELSE IF method = "minsize" THEN solve_steady_minsize(self, usta)
  ELSE IF method = "direct" THEN solve_steady_direct(self, usta)
  ELSE solve_steady_subsystem(self, usta)

\* method 'recursive': tol = 1e-4 and the iteration cap of the while loop
tol_inv == 10000
max_iter == 1000

\* er > tol and er < tol, for er >= 0 given by its square er2 (er is a Euclidean norm)
er_above_tol(er2) == er2[1] > er2[2] \div (tol_inv * tol_inv)
er_below_tol(er2) ==
  \/ er2[1] < er2[2] \div (tol_inv * tol_inv)
  \/ er2[1] = er2[2] \div (tol_inv * tol_inv) /\ er2[2] % (tol_inv * tol_inv) # 0

\* the locals before the loop; Bu and Du are the values of np.dot(Bss, usta) and
\* np.dot(Dss, usta), which every iteration computes anew from the same operands
recursive_enter(self, usta) ==
  [usta |-> usta,
   xsta |-> Vec(self.SS.A.r, LAMBDA i : RZero),
   ysta |-> None,
   Ftot0 |-> Vec(3, LAMBDA i : RZero),
   er2 |-> ROne,
   nn |-> 0,
   Bu |-> MatVec(self.SS.B, usta),
   Du |-> MatVec(self.SS.D, usta)]

\* the loop condition: while er > tol and nn < 1000
recursive_continues(r) == er_above_tol(r.er2) /\ r.nn < max_iter

\* one iteration of the loop body
recursive_iter(self, r) ==
  Bind(VecAdd(MatVec(self.SS.A, r.xsta), r.Bu), LAMBDA xsta :
    Bind(VecAdd(MatVec(self.SS.C, xsta), r.Du), LAMBDA ysta :
      Bind(Vec(3, LAMBDA cc : SumR(LAMBDA i : ysta[(cc - 1) * Kzeta + i], 1, Kzeta)),
           LAMBDA Ftot :
        [r EXCEPT !.xsta = xsta,
                  !.ysta = Some(ysta),
                  !.er2 = SumR(LAMBDA cc : RMul(RSub(Ftot[cc], r.Ftot0[cc]),
                                                RSub(Ftot[cc], r.Ftot0[cc])), 1, 3),
                  !.Ftot0 = Ftot,
                  !.nn = @ + 1])))

\* after the loop: "if er < tol: pass", else the message is printed; xsta, ysta are
\* returned either way
recursive_exit(r) ==
  [err |-> "none",
   ret |-> Some([xsta |-> r.xsta, ysta |-> r.ysta[1]]),
   printed |-> IF er_below_tol(r.er2) THEN None
               ELSE Some([msg |-> "Solution not found! Max. iterations reached with error",
                          er2 |-> r.er2])]

(* ---------------------------------------------------------------------- *)
(* Frequency response: Dynamic.freqresp(kv), class Frequency, and the        *)
(* reference libss.freqresp(SS, kv).                                         *)
(* A frequency k is given by the rational w with k = w * pi / 2, so that     *)
(* kvdt = k * dt is w * dt quarter turns.  A response is the sequence, over  *)
(* the frequencies of kv, of complex outputs-by-inputs matrices; the results *)
(* are [err, ret].                                                           *)
(* ---------------------------------------------------------------------- *)

\* zv = np.cos(kvdt) + 1.j * np.sin(kvdt) for kvdt a whole number of quarter turns,
\* where cos and sin are rational
zv(w, dt_) ==
  Bind(RMul(w, dt_), LAMBDA turns :
    CASE turns[2] = 1 /\ turns[1] % 4 = 0 -> <<ROne, RZero>>
      [] turns[2] = 1 /\ turns[1] % 4 = 1 -> <<RZero, ROne>>
      [] turns[2] = 1 /\ turns[1] % 4 = 2 -> <<RInt(-1), RZero>>
      [] turns[2] = 1 /\ turns[1] % 4 = 3 -> <<RZero, RInt(-1)>>)

\* a wake circulation response that lags the trailing edge by one step less
get_Cw_cpx_one_step_early(zval) ==
  Bind(zval, LAMBDA z :
    Mat(K_star, K, LAMBDA i, j :
      IF j = TEofWake(i) THEN CPow(z, -WakeRow(i)) ELSE CZero))

\* a wake response whose columns are not advanced from one surface to the next
\* (K0tot left at 0)
get_Cw_cpx_columns_of_first_surface(zval) ==
  Bind(zval, LAMBDA z :
    LET iijj == UNION { { <<K0star(sf) + mm * NN(sf) + n, NN(sf) * (MM(sf) - 1) + n, mm>> :
                            mm \in 0..(MM_star(sf) - 1), n \in 0..(NN(sf) - 1) } :
                        sf \in 1..n_surf }
    IN Mat(K_star, K, LAMBDA i, j :
         CSum(LAMBDA mm : IF <<i - 1, j - 1, mm>> \in iijj THEN CPow(z, -mm - 1) ELSE CZero,
              0, K_star)))

\* Dynamic.get_Cw_cpx: for every surface ss and wake row mm, the N entries
\* (iivec, jjvec, valvec) = (K0totstar + mm*N + n, K0tot + N*(M-1) + n, zval**(-mm-1)),
\* 0-based (sf is the loop's ss), K0tot and K0totstar advancing by KK[ss] and
\* KK_star[ss]; csc_matrix sums the values given for one position
get_Cw_cpx(zval) ==
  Bind(zval, LAMBDA z :
    LET iijj == UNION { { <<K0star(sf) + mm * NN(sf) + n,
                            K0(sf) + NN(sf) * (MM(sf) - 1) + n, mm>> :
                            mm \in 0..(MM_star(sf) - 1), n \in 0..(NN(sf) - 1) } :
                        sf \in 1..n_surf }
    IN Mat(K_star, K, LAMBDA i, j :
         CSum(LAMBDA mm : IF <<i - 1, j - 1, mm>> \in iijj THEN CPow(z, -mm - 1) ELSE CZero,
              0, K_star)))

\* Frequency.get_Cw_cpx
Frequency_get_Cw_cpx(zval) ==
  Bind(zval, LAMBDA z :
    LET iijj == UNION { { <<K0star(sf) + mm * NN(sf) + n,
                            K0(sf) + NN(sf) * (MM(sf) - 1) + n, mm>> :
                            mm \in 0..(MM_star(sf) - 1), n \in 0..(NN(sf) - 1) } :
                        sf \in 1..n_surf }
    IN Mat(K_star, K, LAMBDA i, j :
         CSum(LAMBDA mm : IF <<i - 1, j - 1, mm>> \in iijj THEN CPow(z, -mm - 1) ELSE CZero,
              0, K_star)))

\* dfact of the derivative of the circulation, integration orders 1 and 2
dfact(order, z) ==
  IF order = 1 THEN CSub(COne, CDiv(COne, z))
  ELSE CMul(CReal(<<1, 2>>),
            CAdd(CSub(CReal(RInt(3)), CDiv(CReal(RInt(4)), z)), CDiv(COne, CMul(z, z))))

\* Yfreq[:, :, kk] of both fast responses: C[:, :K] Ygamma + C[:, K:K+K_star]
\* Ygamma_star + C[:, K+K_star:2K+K_star] (dfact Ygamma) + D
fast_output(C, D, Ygamma, Cw_cpx, df) ==
  Bind2(ToC(C), Ygamma, LAMBDA c, Yg :
    Bind(CMatMul(Cw_cpx, Yg), LAMBDA Ygs :
      CMatAdd(CMatAdd(CMatMul(Slice(c, 0, c.r, 0, K), Yg),
                      CMatMul(Slice(c, 0, c.r, K, K_star), Ygs)),
              CMatAdd(CMatMul(Slice(c, 0, c.r, K + K_star, K), CMatScale(df, Yg)),
                      ToC(D)))))

\* one frequency of Dynamic.freqresp (the branch the assert leaves reachable):
\* <<Yfreq[:, :, kk]>>, or <<>> when the K x K system is singular
Dynamic_freqresp_at(self, w) ==
  Bind2(self.SS, zv(w, self.SS.dt), LAMBDA m, z :
    Bind(get_Cw_cpx(z), LAMBDA Cw_cpx :
      Bind(csolve(CMatSub(CMatSub(CEye(z, K), ToC(Slice(m.A, 0, K, 0, K))),
                          CMatMul(ToC(Slice(m.A, 0, K, K, K_star)), Cw_cpx)),
                  ToC(Slice(m.B, 0, K, 0, m.B.c))), LAMBDA sol :
        IF sol = <<>> THEN <<>>
        ELSE <<fast_output(m.C, m.D, sol[1], Cw_cpx, dfact(self.integr_order, z))>>)))

\* a response computed whatever the form of the model
Dynamic_freqresp_unasserted(self, kv) ==
  Bind([kk \in 1..Len(kv) |-> Dynamic_freqresp_at(self, kv[kk])], LAMBDA Y :
    IF \E kk \in 1..Len(kv) : Y[kk] = <<>>
    THEN [err |-> "LinAlgError", ret |-> None]
    ELSE [err |-> "none", ret |-> Some([kk \in 1..Len(kv) |-> Y[kk][1]])])

\* Dynamic.freqresp(kv)
Dynamic_freqresp(self, kv) ==
  IF self.remove_predictor THEN [err |-> "AssertionError", ret |-> None]
  ELSE Bind([kk \in 1..Len(kv) |-> Dynamic_freqresp_at(self, kv[kk])], LAMBDA Y :
         IF \E kk \in 1..Len(kv) : Y[kk] = <<>>
         THEN [err |-> "LinAlgError", ret |-> None]
         ELSE [err |-> "none", ret |-> Some([kk \in 1..Len(kv) |-> Y[kk][1]])])

\* libss.freqresp(SS, kv): C (z I - A)^-1 B + D at z = exp(j k dt), by inversion of
\* the full model
libss_freqresp(m, kv) ==
  [kk \in 1..Len(kv) |->
     Bind(zv(kv[kk], m.dt), LAMBDA z :
       Bind(csolve(CMatSub(CEye(z, m.A.r), ToC(m.A)), ToC(m.B)), LAMBDA sol :
         CMatAdd(CMatMul(ToC(m.C), sol[1]), ToC(m.D))))]

\* Frequency.__init__
Frequency_init(dt_, order, rp, sd, sparse) ==
  IF order \notin {0, 1, 2} THEN [err |-> "AssertionError", ret |-> None]
  ELSE [err |-> "none",
        ret |-> Some([dt |-> dt_, integr_order |-> order,
                      inputs |-> 9 * Kzeta, outputs |-> 3 * Kzeta,
                      remove_predictor |-> rp, use_sparse |-> sparse,
                      ScalingFacts |-> InitScalingFacts(sd),
                      A0 |-> None, A0W |-> None, Bss |-> None, Css |-> None,
                      Dss |-> None])]

\* Frequency.assemble: A0, A0W, Bss = [-Ducdzeta, Wnv0, -Wnv0], Css over the states
\* (Gamma, Gamma_w, Delta Gamma), Dss
Frequency_assemble(f) ==
  [f EXCEPT
     !.A0 = Some(A0),
     !.A0W = Some(A0W),
     !.Bss = Some(Bind2(Ducdzeta, Wnv, LAMBDA Dz, W :
               Mat(K, 9 * Kzeta, LAMBDA i, j :
                 IF j <= 3 * Kzeta THEN RNeg(Dz.v[i][j])
                 ELSE IF j <= 6 * Kzeta THEN W.v[i][j - 3 * Kzeta]
                 ELSE RNeg(W.v[i][j - 6 * Kzeta])))),
     !.Css = Some(Bind2(Dfqsdgamma, Dfqsdgamma_star, LAMBDA G, Gs :
               Bind(Dfunstdgamma_dot, LAMBDA Gd :
                 Mat(f.outputs, 2 * K + K_star, LAMBDA i, j :
                   IF j <= K THEN G.v[i][j]
                   ELSE IF j <= K + K_star THEN Gs.v[i][j - K]
                   ELSE RDiv(Gd.v[i][j - K - K_star], f.dt))))),
     !.Dss = Some(Bind2(Dfqsdzeta, Dfqsduinput, LAMBDA Z, W :
               Mat(f.outputs, f.inputs, LAMBDA i, j :
                 IF j <= 3 * Kzeta THEN Z.v[i][j]
                 ELSE IF j <= 6 * Kzeta THEN RNeg(W.v[i][j - 3 * Kzeta])
                 ELSE W.v[i][j - 6 * Kzeta])))]

\* Frequency.nondimss on an assembled instance
Frequency_nondimss(f) ==
  LET SF == f.ScalingFacts
      fB(j) == IF j <= 3 * Kzeta THEN RDiv(SF.length, SF.circulation)
               ELSE RDiv(SF.speed, SF.circulation)
      fD(j) == IF j <= 3 * Kzeta THEN RDiv(SF.length, SF.force)
               ELSE RDiv(SF.speed, SF.force)
  IN [f EXCEPT !.Bss = Some(ColScale(f.Bss[1], fB)),
               !.Css = Some(MatScale(RDiv(SF.circulation, SF.force), f.Css[1])),
               !.Dss = Some(ColScale(f.Dss[1], fD)),
               !.dt = RDiv(f.dt, SF.time)]

\* one frequency of Frequency.freqresp, integration orders 1 and 2 (the derivative
\* factor of order 0, 1.j * kv * dt, is not rational)
Frequency_freqresp_at(f, w) ==
  Bind(zv(w, f.dt), LAMBDA z :
    Bind(Frequency_get_Cw_cpx(z), LAMBDA Cw_cpx :
      Bind(csolve(CMatAdd(ToC(f.A0[1]), CMatMul(ToC(f.A0W[1]), Cw_cpx)),
                  ToC(f.Bss[1])), LAMBDA sol :
        IF sol = <<>> THEN <<>>
        ELSE <<fast_output(f.Css[1], f.Dss[1],
                           IF f.remove_predictor THEN sol[1]
                           ELSE CMatScale(CPow(z, -1), sol[1]),
                           Cw_cpx, dfact(f.integr_order, z))>>)))

\* Frequency.freqresp(kv); before assemble the matrices it reads do not exist
Frequency_freqresp(f, kv) ==
  IF f.A0 = None THEN [err |-> "AttributeError", ret |-> None]
  ELSE Bind([kk \in 1..Len(kv) |-> Frequency_freqresp_at(f, kv[kk])], LAMBDA Y :
         IF \E kk \in 1..Len(kv) : Y[kk] = <<>>
         THEN [err |-> "LinAlgError", ret |-> None]
         ELSE [err |-> "none", ret |-> Some([kk \in 1..Len(kv) |-> Y[kk][1]])])

(* ---------------------------------------------------------------------- *)
(* Dynamic.balfreq(kv_low, kv_high, wv_low, wv_high)                        *)
(* ---------------------------------------------------------------------- *)

\* The Gramian factors are integrals of complex exponentials and the balancing pair
\* comes out of scipy.linalg.svd: their numerical values are outside exact
\* arithmetic.  A run's numerical outcome is indexed by q; the shapes are the code's.
Num(q, tag, r, c) ==
  Mat(r, c, LAMBDA i, j : RInt((((q + tag) * i + tag * j + q) % 3) - 1))

\* a balfreq without the guard on the predictor-removed form
balfreq_err_any_form(wv_given, Nk_low, Nk_high) ==
  IF ~wv_given THEN "NameError"
  ELSE IF integr_order = 1 /\ Nk_low + Nk_high > 0 THEN "NameError"
  ELSE "none"

\* how balfreq ends: the exception it raises, or "none"
balfreq_err(wv_given, Nk_low, Nk_high) ==
  IF ~wv_given THEN "NameError"                    \* automatic weights under development
  ELSE IF remove_predictor THEN "NameError"        \* case without predictor not implemented
  ELSE IF integr_order = 1 /\ Nk_low + Nk_high > 0
    THEN "NameError"                               \* dfact=(bp1 + bp0/zval): bp0 is not defined
  ELSE "none"

\* a reduction that drops the feed-through
balfreq_run_without_D(m, Nk_low, Nk_high, q) ==
  LET Nk == Nk_low + Nk_high
      zc == Num(q, 1, m.states, 2 * m.inputs * Nk)
      zo == Num(q, 2, m.states, 2 * m.outputs * Nk_low)
      ns == IF zo.c <= zc.c THEN zo.c ELSE zc.c
      s == Vec(ns, LAMBDA i : RInt(ns - i + 1 + q))
      t == Num(q, 3, m.states, ns)
      ti == Num(q, 4, ns, m.states)
  IN [Zc |-> zc, Zo |-> zo, T |-> t, Ti |-> ti, gv |-> s,
      SSb |-> ss(MatMul(ti, MatMul(m.A, t)), MatMul(ti, m.B), MatMul(m.C, t),
                 zeros(m.outputs, m.inputs), m.dt),
      shared |-> {}]

\* a reduction that keeps only the singular values above a tolerance
balfreq_run_truncated(m, Nk_low, Nk_high, q) ==
  LET Nk == Nk_low + Nk_high
      zc == Num(q, 1, m.states, 2 * m.inputs * Nk)
      zo == Num(q, 2, m.states, 2 * m.outputs * Nk_low)
      full == IF zo.c <= zc.c THEN zo.c ELSE zc.c
      ns == Cardinality({ i \in 1..full : full - i + 1 + q > 3 })
      s == Vec(ns, LAMBDA i : RInt(full - i + 1 + q))
      t == Num(q, 3, m.states, ns)
      ti == Num(q, 4, ns, m.states)
  IN [Zc |-> zc, Zo |-> zo, T |-> t, Ti |-> ti, gv |-> s,
      SSb |-> ss(MatMul(ti, MatMul(m.A, t)), MatMul(ti, m.B), MatMul(m.C, t), m.D, m.dt),
      shared |-> {"D"} \cap ss_shares]

\* what a successful balfreq leaves: Zc, Zo, T, gv, SSb (and its local Ti)
balfreq_run(m, Nk_low, Nk_high, q) ==
  LET Nk == Nk_low + Nk_high
      zc == Num(q, 1, m.states, 2 * m.inputs * Nk)
      zo == Num(q, 2, m.states, 2 * m.outputs * Nk_low)
      \* M = Zo.T Zc; U, s, Vh = svd(M, full_matrices=False)
      Mr == zo.c
      Mc == zc.c
      ns == IF Mr <= Mc THEN Mr ELSE Mc
      s == Vec(ns, LAMBDA i : RInt(ns - i + 1 + q))
      t == Num(q, 3, m.states, ns)            \* T = Zc (Vh.T * sinv)
      ti == Num(q, 4, ns, m.states)           \* Ti = (U * sinv).T Zo.T
      Ab == MatMul(ti, MatMul(m.A, t))
      Bb == MatMul(ti, m.B)
      Cb == MatMul(m.C, t)
  IN [Zc |-> zc, Zo |-> zo, T |-> t, Ti |-> ti, gv |-> s,
      SSb |-> ss(Ab, Bb, Cb, m.D, m.dt),
      \* Ab, Bb, Cb are new arrays; D is self.SS.D itself, handed to libss.ss
      shared |-> {"D"} \cap ss_shares]


(* ---------------------------------------------------------------------- *)
(* The state machine                                                        *)
(* ---------------------------------------------------------------------- *)

\* bounds of the exploration: operations called on an assembled model, and time steps
MaxCalls == 2
MaxSteps == 3

Lattices ==
  { <<[M |-> 1, N |-> 1, Mstar |-> 2]>>,
    <<[M |-> 2, N |-> 1, Mstar |-> 1]>> }
Dts == { <<1, 20>> }
Orders == 0..3
ScalingDicts ==
  { DefaultScalingDict,
    [length |-> RInt(2), speed |-> RInt(3), density |-> RInt(2)] }
InputIds == {2}
Outcomes == {1}

NoCall == [op |-> "none", order |-> 0, x_n |-> <<>>, u_n |-> <<>>, u_n1 |-> None,
           transform_state |-> FALSE, weights |-> FALSE, Nk_low |-> 0, Nk_high |-> 0,
           method |-> "", usta |-> <<>>, zval |-> <<>>, ts |-> <<>>]

\* no linear model constructed yet, whatever the linearisation point
NoLinearModel ==
  /\ exists = FALSE
  /\ dt = RZero /\ integr_order = 0 /\ Nx = 0 /\ Nu = 0 /\ Ny = 0
  /\ remove_predictor = FALSE /\ use_sparse = FALSE
  /\ ScalingFacts = InitScalingFacts(DefaultScalingDict)
  /\ B_predictor = None /\ SS = None
  /\ SSb = None /\ T = None /\ gv = None /\ Zc = None /\ Zo = None /\ Ti = None
  /\ SSb_shared = {}
  /\ Sta = None /\ ret = None /\ rec = None /\ printed = None /\ lin = None
  /\ Freq = None
  /\ x_n = <<>> /\ u_n = <<>> /\ y_n = <<>> /\ caller_u = <<>>
  /\ twin_SS = None /\ twin_x = <<>> /\ twin_y = <<>> /\ hist = <<>>
  /\ call = NoCall /\ err = "none" /\ pre = None /\ ncalls = 0

\* nothing constructed yet; the run has no multibody state for a controller
NothingBuilt ==
  /\ NoLinearModel
  /\ controller = None /\ controlled_state = None

Init ==
  /\ tsdata \in [surfs : Lattices, wake : {"regular"}]
  /\ NothingBuilt

\* a constructor that accepts any integration order
Construct_any_order(dt_, order, rp, sd, sparse) ==
  /\ ~exists
  /\ call' = [NoCall EXCEPT !.op = "__init__", !.order = order]
  /\ exists' = TRUE
  /\ dt' = dt_ /\ integr_order' = order
  /\ Nx' = InitNx(order) /\ Ny' = InitNy /\ Nu' = InitNu
  /\ remove_predictor' = rp /\ use_sparse' = sparse
  /\ ScalingFacts' = InitScalingFacts(sd)
  /\ err' = "none"
  /\ UNCHANGED <<tsdata, controller, controlled_state, hist, lin, Freq, SSb_shared, Sta, ret, rec, printed, B_predictor, SS, SSb, T, gv, Zc, Zo, Ti, x_n, u_n, y_n,
                 twin_SS, twin_x, twin_y, caller_u, pre, ncalls>>

\* Dynamic(tsdata, dt, integr_order, RemovePredictor, ScalingDict, UseSparse)
Construct(dt_, order, rp, sd, sparse) ==
  /\ ~exists
  /\ call' = [NoCall EXCEPT !.op = "__init__", !.order = order]
  /\ IF order \in {1, 2}
     THEN /\ exists' = TRUE
          /\ dt' = dt_ /\ integr_order' = order
          /\ Nx' = InitNx(order) /\ Ny' = InitNy /\ Nu' = InitNu
          /\ remove_predictor' = rp /\ use_sparse' = sparse
          /\ ScalingFacts' = InitScalingFacts(sd)
          /\ err' = "none"
     ELSE /\ err' = "NameError"
          /\ UNCHANGED <<exists, dt, integr_order, Nx, Nu, Ny, remove_predictor,
                         use_sparse, ScalingFacts>>
  /\ UNCHANGED <<tsdata, controller, controlled_state, hist, lin, Freq, SSb_shared, Sta, ret, rec, printed, B_predictor, SS, SSb, T, gv, Zc, Zo, Ti, x_n, u_n, y_n,
                 twin_SS, twin_x, twin_y, caller_u, pre, ncalls>>

\* input vectors the callers pass
U(k) == Vec(Nu, LAMBDA j : RInt(((k * j + (j \div 5)) % 3) - 1))
Inputs == { U(k) : k \in InputIds }

\* Dyn.assemble_ss(); the caller of the time stepper starts from x = 0 with an input u
assemble_ss ==
  /\ exists /\ SS = None
  /\ call' = [NoCall EXCEPT !.op = "assemble_ss"]
  /\ IF AssembleFits
     THEN \E res \in {assemble_ss_SS} :
             /\ SS' = Some(res.SS)
             /\ B_predictor' = res.B_predictor
             /\ twin_SS' = Some(res.direct)
             /\ x_n' = Vec(Nx, LAMBDA i : RZero)
             /\ twin_x' = Vec(Nx, LAMBDA i : RZero)
             /\ hist' = <<Vec(Nx, LAMBDA i : RZero)>>
             /\ u_n' = U(1)
             /\ err' = "none"
     ELSE /\ err' = "ValueError"
          /\ UNCHANGED <<SS, B_predictor, twin_SS, x_n, twin_x, u_n, hist>>
  /\ UNCHANGED <<tsdata, controller, controlled_state, lin, Freq, SSb_shared, Sta, ret, rec, printed, exists, dt, integr_order, Nx, Nu, Ny, remove_predictor,
                 use_sparse, ScalingFacts, SSb, T, gv, Zc, Zo, Ti, y_n, twin_y, caller_u,
                 pre, ncalls>>

\* the instance as solve_step reads it, and the direct-form twin
Self == [remove_predictor |-> remove_predictor, SS |-> SS[1], B_predictor |-> B_predictor]
Twin == [remove_predictor |-> FALSE, SS |-> twin_SS[1], B_predictor |-> None]

\* the reduced model after the in-place scaling that left the full model as new: an
\* array the two models share is one object
InPlace(reduced, new) ==
  IF reduced = None THEN reduced
  ELSE Some([reduced[1] EXCEPT !.B = IF "B" \in SSb_shared THEN new.B ELSE @,
                              !.C = IF "C" \in SSb_shared THEN new.C ELSE @,
                              !.D = IF "D" \in SSb_shared THEN new.D ELSE @])

\* Dyn.nondimss()
CallNondimss ==
  /\ SS # None /\ ncalls < MaxCalls
  /\ call' = [NoCall EXCEPT !.op = "nondimss"]
  /\ pre' = SS
  /\ \E new \in {nondimss(SS[1], ScalingFacts)} :
        /\ SS' = Some(new)
        /\ SSb' = InPlace(SSb, new)
  /\ err' = "none"
  /\ ncalls' = ncalls + 1
  /\ UNCHANGED <<tsdata, controller, controlled_state, hist, lin, Freq, SSb_shared, Sta, ret, rec, printed, exists, dt, integr_order, Nx, Nu, Ny, remove_predictor,
                 use_sparse, ScalingFacts, B_predictor, T, gv, Zc, Zo, Ti,
                 x_n, u_n, y_n, twin_SS, twin_x, twin_y, caller_u>>

\* Dyn.dimss()
CallDimss ==
  /\ SS # None /\ ncalls < MaxCalls
  /\ call' = [NoCall EXCEPT !.op = "dimss"]
  /\ pre' = IF call.op = "nondimss" THEN pre ELSE None
  /\ \E new \in {dimss(SS[1], ScalingFacts)} :
        /\ SS' = Some(new)
        /\ SSb' = InPlace(SSb, new)
  /\ err' = "none"
  /\ ncalls' = ncalls + 1
  /\ UNCHANGED <<tsdata, controller, controlled_state, hist, lin, Freq, SSb_shared, Sta, ret, rec, printed, exists, dt, integr_order, Nx, Nu, Ny, remove_predictor,
                 use_sparse, ScalingFacts, B_predictor, T, gv, Zc, Zo, Ti,
                 x_n, u_n, y_n, twin_SS, twin_x, twin_y, caller_u>>

\* a reduction that projects the full model in place: self.SS becomes the reduced model
CallBalfreq_in_place(wv_given, Nk_low, Nk_high, q) ==
  /\ SS # None /\ ncalls < MaxCalls
  /\ call' = [NoCall EXCEPT !.op = "balfreq", !.weights = wv_given,
                            !.Nk_low = Nk_low, !.Nk_high = Nk_high]
  /\ err' = balfreq_err(wv_given, Nk_low, Nk_high)
  /\ IF balfreq_err(wv_given, Nk_low, Nk_high) = "none"
     THEN \E res \in {balfreq_run(SS[1], Nk_low, Nk_high, q)} :
             /\ Zc' = Some(res.Zc) /\ Zo' = Some(res.Zo)
             /\ T' = Some(res.T) /\ Ti' = Some(res.Ti) /\ gv' = Some(res.gv)
             /\ SSb' = Some(res.SSb)
             /\ SS' = Some(res.SSb)
             /\ SSb_shared' = res.shared
     ELSE UNCHANGED <<Zc, Zo, T, Ti, gv, SSb, SS, SSb_shared>>
  /\ pre' = None
  /\ ncalls' = ncalls + 1
  /\ UNCHANGED <<tsdata, controller, controlled_state, hist, lin, Freq, Sta, ret, rec, printed, exists, dt, integr_order, Nx, Nu, Ny, remove_predictor,
                 use_sparse, ScalingFacts, B_predictor, x_n, u_n, y_n,
                 twin_SS, twin_x, twin_y, caller_u>>

\* Dyn.balfreq(kv_low, kv_high, wv_low, wv_high): the grids have Nk_low and Nk_high
\* points; wv_given: both weight vectors are passed
CallBalfreq(wv_given, Nk_low, Nk_high, q) ==
  /\ SS # None /\ ncalls < MaxCalls
  /\ call' = [NoCall EXCEPT !.op = "balfreq", !.weights = wv_given,
                            !.Nk_low = Nk_low, !.Nk_high = Nk_high]
  /\ err' = balfreq_err(wv_given, Nk_low, Nk_high)
  /\ IF balfreq_err(wv_given, Nk_low, Nk_high) = "none"
     THEN \E res \in {balfreq_run(SS[1], Nk_low, Nk_high, q)} :
             /\ Zc' = Some(res.Zc) /\ Zo' = Some(res.Zo)
             /\ T' = Some(res.T) /\ Ti' = Some(res.Ti) /\ gv' = Some(res.gv)
             /\ SSb' = Some(res.SSb)
             /\ SSb_shared' = res.shared
     ELSE UNCHANGED <<Zc, Zo, T, Ti, gv, SSb, SSb_shared>>
  /\ pre' = None
  /\ ncalls' = ncalls + 1
  /\ UNCHANGED <<tsdata, controller, controlled_state, hist, lin, Freq, Sta, ret, rec, printed, exists, dt, integr_order, Nx, Nu, Ny, remove_predictor,
                 use_sparse, ScalingFacts, B_predictor, SS, x_n, u_n, y_n,
                 twin_SS, twin_x, twin_y, caller_u>>

\* x_n1, y_n1 = Dyn.solve_step(x_n, u_n, u_n1, transform_state); the caller then
\* advances: the new state becomes its current state, u_n1 its current input.  A caller
\* keeps the transform_state it marches with.  The twin's caller does the same with
\* the direct-form model.
CallSolveStep(u1, transform_state) ==
  /\ SS # None /\ ncalls < MaxSteps
  /\ call.op = "solve_step" => transform_state = call.transform_state
  /\ call' = [NoCall EXCEPT !.op = "solve_step", !.x_n = x_n, !.u_n = u_n, !.u_n1 = u1,
                            !.transform_state = transform_state]
  /\ \E res \in {solve_step(Self, x_n, u_n, u1, transform_state)},
        two \in {solve_step(Twin, twin_x, u_n, u1, transform_state)} :
        /\ x_n' = res.x_n1
        /\ y_n' = res.y_n1
        /\ caller_u' = res.u_n
        /\ u_n' = IF u1 = None THEN res.u_n ELSE u1[1]
        /\ twin_x' = two.x_n1
        /\ twin_y' = two.y_n1
        /\ hist' = Append(hist, two.x_n1)
  /\ err' = "none"
  /\ ncalls' = ncalls + 1
  /\ UNCHANGED <<tsdata, controller, controlled_state, lin, Freq, SSb_shared, Sta, ret, rec, printed, exists, dt, integr_order, Nx, Nu, Ny, remove_predictor,
                 use_sparse, ScalingFacts, B_predictor, SS, SSb, T, gv, Zc, Zo, Ti,
                 twin_SS, pre>>

ConstructAny ==
  \E dt_ \in Dts, order \in Orders, rp \in BOOLEAN, sd \in ScalingDicts, sparse \in BOOLEAN :
    Construct(dt_, order, rp, sd, sparse)

\* construction, assembly, scaling and model reduction
Next ==
  \/ ConstructAny
  \/ assemble_ss
  \/ CallNondimss
  \/ CallDimss
  \/ \E wv \in BOOLEAN, q \in Outcomes : CallBalfreq(wv, 1, 1, q)

Spec == Init /\ [][Next]_vars

\* construction, assembly and time marching
NextStep ==
  \/ ConstructAny
  \/ assemble_ss
  \/ \E u1 \in {None} \cup { Some(u) : u \in Inputs }, ts \in BOOLEAN : CallSolveStep(u1, ts)

SpecStep == Init /\ [][NextStep]_vars

(* ---------------------------------------------------------------------- *)
(* The steady state: Static of a tsdata, then Dynamic models of the same    *)
(* tsdata and their solve_steady                                            *)
(* ---------------------------------------------------------------------- *)

\* bound of the exploration: solve_steady calls on an assembled model
MaxSolves == 1

SteadyData ==
  { [surfs |-> <<[M |-> 1, N |-> 2, Mstar |-> 2]>>, wake |-> "regular"],
    [surfs |-> <<[M |-> 1, N |-> 1, Mstar |-> 1], [M |-> 2, N |-> 1, Mstar |-> 1]>>,
     wake |-> "regular"],
    [surfs |-> <<[M |-> 1, N |-> 1, Mstar |-> 2]>>, wake |-> "none"],
    [surfs |-> <<[M |-> 1, N |-> 1, Mstar |-> 1]>>, wake |-> "marginal"] }
SteadyInputIds == {1, 2}
Methods == {"direct", "minsize", "recursive", "subsystem", "newton"}

\* the constant input (zeta, zeta_dot, u_ext) number k
Usta(k) == Vec(9 * Kzeta, LAMBDA j : RInt(((k * j + (j \div 5)) % 3) - 1))

\* the map from a constant input to the Ftot of the first iteration of method
\* 'recursive' (xsta = B usta, ysta = C xsta + D usta, summed per component)
FirstTotalForce ==
  Bind(MatAdd(MatMul(SS[1].C, SS[1].B), SS[1].D), LAMBDA G :
    Mat(3, 9 * Kzeta, LAMBDA cc, j : SumR(LAMBDA i : G.v[(cc - 1) * Kzeta + i][j], 1, Kzeta)))

\* a constant input, nonzero in three entries, whose first iteration moves the total
\* force by exactly the tolerance: Ftot = (1e-4, 0, 0)
UstaAtTolerance ==
  Bind(FirstTotalForce, LAMBDA F :
    LET G(t) == Mat(3, 3, LAMBDA cc, k : F.v[cc][t[k]])
        t == CHOOSE t \in { tt \in (1..8) \X (1..8) \X (1..8) : tt[1] < tt[2] /\ tt[2] < tt[3] } :
               Det(G(t)) # RZero
        \* the first column of the inverse of G(t), times the tolerance
        w(k) == RMul(RDiv(IF k % 2 = 1 THEN Det(Minor(G(t), 1, k))
                          ELSE RNeg(Det(Minor(G(t), 1, k))), Det(G(t))),
                     <<1, tol_inv>>)
    IN Vec(9 * Kzeta, LAMBDA j : IF j = t[1] THEN w(1)
                                 ELSE IF j = t[2] THEN w(2)
                                 ELSE IF j = t[3] THEN w(3) ELSE RZero))

\* Sta = Static(tsdata)
StaNew ==
  /\ Sta = None /\ rec = None
  /\ Sta' = Some(Static_init)
  /\ call' = [NoCall EXCEPT !.op = "Static.__init__"]
  /\ err' = "none"
  /\ UNCHANGED <<tsdata, controller, controlled_state, hist, lin, Freq, SSb_shared, ret, rec, printed, exists, dt, integr_order, Nx, Nu,
                 Ny, remove_predictor, use_sparse, ScalingFacts, B_predictor, SS, SSb, T,
                 gv, Zc, Zo, Ti, x_n, u_n, y_n, twin_SS, twin_x, twin_y, caller_u, pre,
                 ncalls>>

\* Sta.assemble()
StaAssemble ==
  /\ Sta # None /\ rec = None
  /\ ~Sta[1].assembled
  /\ Sta' = Some([Sta[1] EXCEPT !.assembled = TRUE])
  /\ call' = [NoCall EXCEPT !.op = "Static.assemble"]
  /\ err' = "none"
  /\ UNCHANGED <<tsdata, controller, controlled_state, hist, lin, Freq, SSb_shared, ret, rec, printed, exists, dt, integr_order, Nx, Nu,
                 Ny, remove_predictor, use_sparse, ScalingFacts, B_predictor, SS, SSb, T,
                 gv, Zc, Zo, Ti, x_n, u_n, y_n, twin_SS, twin_x, twin_y, caller_u, pre,
                 ncalls>>

\* a solve that stores its results whatever the influence matrix
StaSolve_unguarded(k) ==
  /\ Sta # None /\ rec = None
  /\ call' = [NoCall EXCEPT !.op = "Static.solve", !.usta = Usta(k)]
  /\ \E u \in {Usta(k)} :
       \E sta \in {[Sta[1] EXCEPT !.zeta = SubSeq(u, 1, 3 * Kzeta),
                                  !.zeta_dot = SubSeq(u, 3 * Kzeta + 1, 6 * Kzeta),
                                  !.u_ext = SubSeq(u, 6 * Kzeta + 1, 9 * Kzeta)]} :
         IF ~sta.assembled
         THEN Sta' = Some(sta) /\ err' = "AttributeError"
         ELSE \E res \in {Static_solve_unguarded(sta)} :
                Sta' = Some(res.sta) /\ err' = res.err
  /\ UNCHANGED <<tsdata, controller, controlled_state, hist, lin, Freq, SSb_shared, ret, rec, printed, exists, dt, integr_order, Nx, Nu,
                 Ny, remove_predictor, use_sparse, ScalingFacts, B_predictor, SS, SSb, T,
                 gv, Zc, Zo, Ti, x_n, u_n, y_n, twin_SS, twin_x, twin_y, caller_u, pre,
                 ncalls>>

\* the caller sets Sta.zeta, Sta.zeta_dot, Sta.u_ext to the parts of input k and calls
\* Sta.solve(); before assemble() the matrices solve reads do not exist
StaSolve(k) ==
  /\ Sta # None /\ rec = None
  /\ call' = [NoCall EXCEPT !.op = "Static.solve", !.usta = Usta(k)]
  /\ \E u \in {Usta(k)} :
       \E sta \in {[Sta[1] EXCEPT !.zeta = SubSeq(u, 1, 3 * Kzeta),
                                  !.zeta_dot = SubSeq(u, 3 * Kzeta + 1, 6 * Kzeta),
                                  !.u_ext = SubSeq(u, 6 * Kzeta + 1, 9 * Kzeta)]} :
         IF ~sta.assembled
         THEN Sta' = Some(sta) /\ err' = "AttributeError"
         ELSE \E res \in {Static_solve(sta)} :
                Sta' = Some(res.sta) /\ err' = res.err
  /\ UNCHANGED <<tsdata, controller, controlled_state, hist, lin, Freq, SSb_shared, ret, rec, printed, exists, dt, integr_order, Nx, Nu,
                 Ny, remove_predictor, use_sparse, ScalingFacts, B_predictor, SS, SSb, T,
                 gv, Zc, Zo, Ti, x_n, u_n, y_n, twin_SS, twin_x, twin_y, caller_u, pre,
                 ncalls>>

\* Sta.reshape()
StaReshape ==
  /\ Sta # None /\ rec = None
  /\ call' = [NoCall EXCEPT !.op = "Static.reshape"]
  /\ \E res \in {Static_reshape(Sta[1])} : Sta' = Some(res.sta) /\ err' = res.err
  /\ UNCHANGED <<tsdata, controller, controlled_state, hist, lin, Freq, SSb_shared, ret, rec, printed, exists, dt, integr_order, Nx, Nu,
                 Ny, remove_predictor, use_sparse, ScalingFacts, B_predictor, SS, SSb, T,
                 gv, Zc, Zo, Ti, x_n, u_n, y_n, twin_SS, twin_x, twin_y, caller_u, pre,
                 ncalls>>

\* Sta.total_forces()
StaTotalForces ==
  /\ Sta # None /\ rec = None
  /\ call' = [NoCall EXCEPT !.op = "Static.total_forces"]
  /\ \E res \in {Static_total_forces(Sta[1])} : Sta' = Some(res.sta) /\ err' = res.err
  /\ UNCHANGED <<tsdata, controller, controlled_state, hist, lin, Freq, SSb_shared, ret, rec, printed, exists, dt, integr_order, Nx, Nu,
                 Ny, remove_predictor, use_sparse, ScalingFacts, B_predictor, SS, SSb, T,
                 gv, Zc, Zo, Ti, x_n, u_n, y_n, twin_SS, twin_x, twin_y, caller_u, pre,
                 ncalls>>

\* Sta.get_total_forces_gain()
StaGetTotalForcesGain ==
  /\ Sta # None /\ rec = None
  /\ call' = [NoCall EXCEPT !.op = "Static.get_total_forces_gain"]
  /\ Sta' = Some(Static_get_total_forces_gain(Sta[1]))
  /\ err' = "none"
  /\ UNCHANGED <<tsdata, controller, controlled_state, hist, lin, Freq, SSb_shared, ret, rec, printed, exists, dt, integr_order, Nx, Nu,
                 Ny, remove_predictor, use_sparse, ScalingFacts, B_predictor, SS, SSb, T,
                 gv, Zc, Zo, Ti, x_n, u_n, y_n, twin_SS, twin_x, twin_y, caller_u, pre,
                 ncalls>>

\* the instance as solve_steady reads it
SelfSteady ==
  [remove_predictor |-> remove_predictor, use_sparse |-> use_sparse,
   integr_order |-> integr_order, SS |-> SS[1]]

\* xsta, ysta = Dyn.solve_steady(usta, method): the methods that return in one pass,
\* and the entry into the loop of method 'recursive'
CallSolveSteady(usta, method) ==
  /\ SS # None /\ rec = None /\ ncalls < MaxSolves
  /\ call' = [NoCall EXCEPT !.op = "solve_steady", !.method = method, !.usta = usta]
  /\ ncalls' = ncalls + 1
  /\ printed' = None
  /\ IF method = "recursive" /\ solve_steady_guard(SelfSteady, method) = "none"
     THEN /\ rec' = Some(recursive_enter(SelfSteady, usta))
          /\ ret' = None
          /\ err' = "none"
     ELSE \E res \in {solve_steady(SelfSteady, usta, method)} :
            /\ ret' = res.ret
            /\ err' = res.err
            /\ rec' = None
  /\ UNCHANGED <<tsdata, controller, controlled_state, hist, lin, Freq, SSb_shared, Sta, exists, dt, integr_order, Nx, Nu,
                 Ny, remove_predictor, use_sparse, ScalingFacts, B_predictor, SS, SSb, T,
                 gv, Zc, Zo, Ti, x_n, u_n, y_n, twin_SS, twin_x, twin_y, caller_u, pre>>

\* one iteration of the loop of method 'recursive'
RecursiveIter ==
  /\ rec # None
  /\ recursive_continues(rec[1])
  /\ rec' = Some(recursive_iter(SelfSteady, rec[1]))
  /\ UNCHANGED <<tsdata, controller, controlled_state, hist, lin, Freq, SSb_shared, Sta, ret, printed, exists, dt, integr_order, Nx, Nu,
                 Ny, remove_predictor, use_sparse, ScalingFacts, B_predictor, SS, SSb, T,
                 gv, Zc, Zo, Ti, x_n, u_n, y_n, twin_SS, twin_x, twin_y, caller_u, pre,
                 ncalls, call, err>>

\* the loop of method 'recursive' is left and solve_steady returns
RecursiveReturn ==
  /\ rec # None
  /\ ~recursive_continues(rec[1])
  /\ \E res \in {recursive_exit(rec[1])} :
       /\ ret' = res.ret
       /\ err' = res.err
       /\ printed' = res.printed
  /\ rec' = None
  /\ UNCHANGED <<tsdata, controller, controlled_state, hist, lin, Freq, SSb_shared, Sta, exists, dt, integr_order, Nx, Nu,
                 Ny, remove_predictor, use_sparse, ScalingFacts, B_predictor, SS, SSb, T,
                 gv, Zc, Zo, Ti, x_n, u_n, y_n, twin_SS, twin_x, twin_y, caller_u, pre,
                 ncalls, call>>

\* The static problem is solved first; Dynamic models of the same tsdata are built
\* with the default scaling and asked for the steady state of input 1.  The loop of
\* method 'recursive' is entered on the data its arithmetic stays exact on.
NextSteady ==
  \/ ~exists /\ StaNew
  \/ ~exists /\ StaAssemble
  \/ ~exists /\ \E k \in SteadyInputIds : StaSolve(k)
  \/ /\ Sta # None /\ Sta[1].gamma # None
     /\ \E dt_ \in Dts, order \in {1, 2}, rp \in BOOLEAN, sparse \in BOOLEAN :
          Construct(dt_, order, rp, DefaultScalingDict, sparse)
  \/ assemble_ss
  \/ \E method \in Methods :
        /\ method = "recursive" => tsdata.wake \in {"none", "marginal"}
        /\ CallSolveSteady(Usta(1), method)
  \/ /\ SS # None /\ tsdata.wake \in {"none", "marginal"}
     /\ ~remove_predictor /\ ~use_sparse
     /\ CallSolveSteady(UstaAtTolerance, "recursive")
  \/ RecursiveIter
  \/ RecursiveReturn

InitSteady == tsdata \in SteadyData /\ NothingBuilt

SpecSteady == InitSteady /\ [][NextSteady]_vars

\* The life of a Static instance on its own: lattices of one and two surfaces, with a
\* wake that acts on the bound panels and with one that cancels the trailing-edge
\* column of the influence matrix.
StaticData ==
  { [surfs |-> <<[M |-> 1, N |-> 2, Mstar |-> 1]>>, wake |-> "regular"],
    [surfs |-> <<[M |-> 1, N |-> 1, Mstar |-> 1], [M |-> 2, N |-> 1, Mstar |-> 1]>>,
     wake |-> "regular"],
    [surfs |-> <<[M |-> 1, N |-> 1, Mstar |-> 1], [M |-> 1, N |-> 2, Mstar |-> 1]>>,
     wake |-> "none"],
    [surfs |-> <<[M |-> 1, N |-> 2, Mstar |-> 1]>>, wake |-> "singular"],
    [surfs |-> <<[M |-> 2, N |-> 1, Mstar |-> 2]>>, wake |-> "singular"] }

NextStatic ==
  \/ StaNew
  \/ StaAssemble
  \/ \E k \in SteadyInputIds : StaSolve(k)
  \/ StaReshape
  \/ StaTotalForces
  \/ StaGetTotalForcesGain

InitStatic == tsdata \in StaticData /\ NothingBuilt

SpecStatic == InitStatic /\ [][NextStatic]_vars

(* ---------------------------------------------------------------------- *)
(* assembler/linearuvlm.py: class LinearUVLM                                *)
(* ---------------------------------------------------------------------- *)

\* the dictionaries initialise builds from the sizes of self.sys: each variable name
\* with the pair of column indices the code writes for it
input_variables_database ==
  [zeta |-> <<0, 3 * Kzeta>>,
   zeta_dot |-> <<3 * Kzeta, 6 * Kzeta>>,
   u_gust |-> <<6 * Kzeta, 9 * Kzeta>>]

state_variables_database ==
  [gamma |-> <<0, K>>,
   gamma_w |-> <<K, K_star>>,
   dtgamma_dot |-> <<K + K_star, 2 * K + K_star>>,
   gamma_m1 |-> <<2 * K + K_star, 3 * K + K_star>>]

\* ss_interface.LinearVector(database, sys_id): the name-to-column-range mapping the
\* instance exposes, each name with the range [first, end) of its pair
LinearVector(database) == database

\* LinearUVLM.initialise with the settings of the Dynamic model it builds and no
\* control surface and no reduction: self.sys = Dynamic(...), then the two mappings.
\* An exception of Dynamic.__init__ ends initialise before they are set.
\* (Line 60 passes the settings as dynamic_settings=..., a keyword the
\* Dynamic.__init__ of linuvlm.py, line 458, does not take; the constructor is given
\* here the values the settings hold.)
LinearUVLM_initialise(dt_, order, rp, sd, sparse) ==
  /\ ~exists /\ lin = None
  /\ call' = [NoCall EXCEPT !.op = "LinearUVLM.initialise", !.order = order]
  /\ IF order \in {1, 2}
     THEN /\ exists' = TRUE
          /\ dt' = dt_ /\ integr_order' = order
          /\ Nx' = InitNx(order) /\ Ny' = InitNy /\ Nu' = InitNu
          /\ remove_predictor' = rp /\ use_sparse' = sparse
          /\ ScalingFacts' = InitScalingFacts(sd)
          /\ lin' = Some([input_variables |-> LinearVector(input_variables_database),
                          state_variables |-> LinearVector(state_variables_database),
                          ss |-> None, C_to_vertex_forces |-> None])
          /\ err' = "none"
     ELSE /\ err' = "NameError"
          /\ UNCHANGED <<exists, dt, integr_order, Nx, Nu, Ny, remove_predictor,
                         use_sparse, ScalingFacts, lin>>
  /\ UNCHANGED <<tsdata, controller, controlled_state, hist, Freq, SSb_shared, Sta, ret, rec, printed, B_predictor, SS, SSb, T, gv,
                 Zc, Zo, Ti, x_n, u_n, y_n, twin_SS, twin_x, twin_y, caller_u, pre, ncalls>>

\* LinearUVLM.assemble with no input removed and no control surface:
\* self.sys.assemble_ss(); self.sys.nondimss(); self.ss = self.sys.SS;
\* self.C_to_vertex_forces = self.ss.C.copy()
LinearUVLM_assemble ==
  /\ lin # None /\ exists /\ SS = None
  /\ call' = [NoCall EXCEPT !.op = "LinearUVLM.assemble"]
  /\ IF AssembleFits
     THEN \E res \in {assemble_ss_SS} : \E new \in {nondimss(res.SS, ScalingFacts)} :
             /\ SS' = Some(new)
             /\ pre' = Some(res.SS)
             /\ B_predictor' = res.B_predictor
             /\ twin_SS' = Some(res.direct)
             /\ x_n' = Vec(Nx, LAMBDA i : RZero)
             /\ twin_x' = Vec(Nx, LAMBDA i : RZero)
             /\ u_n' = U(1)
             /\ lin' = Some([lin[1] EXCEPT !.ss = Some(new),
                                           !.C_to_vertex_forces = Some(new.C)])
             /\ err' = "none"
     ELSE /\ err' = "ValueError"
          /\ UNCHANGED <<SS, pre, B_predictor, twin_SS, x_n, twin_x, u_n, lin>>
  /\ UNCHANGED <<tsdata, controller, controlled_state, hist, Freq, SSb_shared, Sta, ret, rec, printed, exists, dt, integr_order, Nx,
                 Nu, Ny, remove_predictor, use_sparse, ScalingFacts, SSb, T, gv, Zc, Zo,
                 Ti, y_n, twin_y, caller_u, ncalls>>

\* linearisation points the assembler is initialised on
AssemblerData ==
  { [surfs |-> <<[M |-> 1, N |-> 1, Mstar |-> 2]>>, wake |-> "regular"],
    [surfs |-> <<[M |-> 2, N |-> 1, Mstar |-> 1]>>, wake |-> "regular"],
    [surfs |-> <<[M |-> 1, N |-> 2, Mstar |-> 1]>>, wake |-> "regular"],
    [surfs |-> <<[M |-> 1, N |-> 1, Mstar |-> 1], [M |-> 1, N |-> 1, Mstar |-> 2]>>,
     wake |-> "regular"] }

NextAssembler ==
  \/ \E dt_ \in Dts, order \in Orders, rp \in BOOLEAN, sd \in ScalingDicts,
        sparse \in BOOLEAN : LinearUVLM_initialise(dt_, order, rp, sd, sparse)
  \/ LinearUVLM_assemble
  \/ lin # None /\ CallDimss
  \/ lin # None /\ CallNondimss

InitAssembler == tsdata \in AssemblerData /\ NothingBuilt

SpecAssembler == InitAssembler /\ [][NextAssembler]_vars

(* ---------------------------------------------------------------------- *)
(* The frequency responses of a Dynamic and a Frequency instance             *)
(* ---------------------------------------------------------------------- *)

\* linearisation points: one surface with two wake rows, and two surfaces
FreqData ==
  { [surfs |-> <<[M |-> 1, N |-> 1, Mstar |-> 2]>>, wake |-> "regular"],
    [surfs |-> <<[M |-> 2, N |-> 1, Mstar |-> 1]>>, wake |-> "regular"] }

\* the grids kv a caller passes to an instance whose time step is dt_: frequencies at
\* which kvdt is a whole number of quarter turns
Grids(dt_) ==
  { <<RDiv(RInt(0), dt_), RDiv(RInt(1), dt_)>>,
    <<RDiv(RInt(2), dt_), RDiv(RInt(3), dt_)>> }

\* the instance as Dynamic.freqresp reads it
SelfFreq ==
  [remove_predictor |-> remove_predictor, use_sparse |-> use_sparse,
   integr_order |-> integr_order, SS |-> SS[1]]

\* Yfreq = Dyn.freqresp(kv)
CallFreqresp(kv) ==
  /\ SS # None
  /\ call' = [NoCall EXCEPT !.op = "Dynamic.freqresp", !.usta = kv]
  /\ \E res \in {Dynamic_freqresp(SelfFreq, kv)} : ret' = res.ret /\ err' = res.err
  /\ UNCHANGED Freq
  /\ UNCHANGED <<tsdata, controller, controlled_state, hist, lin, SSb_shared, Sta, rec, printed, exists, dt, integr_order, Nx,
                 Nu, Ny, remove_predictor, use_sparse, ScalingFacts, B_predictor, SS, SSb,
                 T, gv, Zc, Zo, Ti, x_n, u_n, y_n, twin_SS, twin_x, twin_y, caller_u, pre,
                 ncalls>>

\* Freq = Frequency(tsdata, dt, integr_order, RemovePredictor, ScalingDict, UseSparse)
FreqNew(dt_, order, rp, sd, sparse) ==
  /\ Freq = None
  /\ call' = [NoCall EXCEPT !.op = "Frequency.__init__", !.order = order]
  /\ \E res \in {Frequency_init(dt_, order, rp, sd, sparse)} :
        Freq' = res.ret /\ err' = res.err
  /\ UNCHANGED ret
  /\ UNCHANGED <<tsdata, controller, controlled_state, hist, lin, SSb_shared, Sta, rec, printed, exists, dt, integr_order, Nx,
                 Nu, Ny, remove_predictor, use_sparse, ScalingFacts, B_predictor, SS, SSb,
                 T, gv, Zc, Zo, Ti, x_n, u_n, y_n, twin_SS, twin_x, twin_y, caller_u, pre,
                 ncalls>>

\* Freq.assemble()
FreqAssemble ==
  /\ Freq # None /\ Freq[1].A0 = None
  /\ call' = [NoCall EXCEPT !.op = "Frequency.assemble"]
  /\ Freq' = Some(Frequency_assemble(Freq[1]))
  /\ err' = "none"
  /\ UNCHANGED ret
  /\ UNCHANGED <<tsdata, controller, controlled_state, hist, lin, SSb_shared, Sta, rec, printed, exists, dt, integr_order, Nx,
                 Nu, Ny, remove_predictor, use_sparse, ScalingFacts, B_predictor, SS, SSb,
                 T, gv, Zc, Zo, Ti, x_n, u_n, y_n, twin_SS, twin_x, twin_y, caller_u, pre,
                 ncalls>>

\* Freq.nondimss(); before assemble the matrices it scales do not exist
FreqNondimss ==
  /\ Freq # None
  /\ call' = [NoCall EXCEPT !.op = "Frequency.nondimss"]
  /\ IF Freq[1].Bss = None
     THEN err' = "AttributeError" /\ UNCHANGED Freq
     ELSE err' = "none" /\ Freq' = Some(Frequency_nondimss(Freq[1]))
  /\ UNCHANGED ret
  /\ UNCHANGED <<tsdata, controller, controlled_state, hist, lin, SSb_shared, Sta, rec, printed, exists, dt, integr_order, Nx,
                 Nu, Ny, remove_predictor, use_sparse, ScalingFacts, B_predictor, SS, SSb,
                 T, gv, Zc, Zo, Ti, x_n, u_n, y_n, twin_SS, twin_x, twin_y, caller_u, pre,
                 ncalls>>

\* Yfreq = Freq.freqresp(kv)
FreqFreqresp(kv) ==
  /\ Freq # None
  /\ call' = [NoCall EXCEPT !.op = "Frequency.freqresp", !.usta = kv]
  /\ \E res \in {Frequency_freqresp(Freq[1], kv)} : ret' = res.ret /\ err' = res.err
  /\ UNCHANGED Freq
  /\ UNCHANGED <<tsdata, controller, controlled_state, hist, lin, SSb_shared, Sta, rec, printed, exists, dt, integr_order, Nx,
                 Nu, Ny, remove_predictor, use_sparse, ScalingFacts, B_predictor, SS, SSb,
                 T, gv, Zc, Zo, Ti, x_n, u_n, y_n, twin_SS, twin_x, twin_y, caller_u, pre,
                 ncalls>>

\* Cw = Dyn.get_Cw_cpx(zval): reads the lattice sizes __init__ has set
CallGetCwCpx(zval) ==
  /\ exists /\ ncalls < MaxCalls
  /\ call' = [NoCall EXCEPT !.op = "Dynamic.get_Cw_cpx", !.zval = zval]
  /\ ret' = Some(get_Cw_cpx(zval))
  /\ err' = "none"
  /\ ncalls' = ncalls + 1
  /\ UNCHANGED <<tsdata, controller, controlled_state, hist, lin, Freq, SSb_shared, Sta, rec, printed, exists, dt, integr_order,
                 Nx, Nu, Ny, remove_predictor, use_sparse, ScalingFacts, B_predictor, SS, SSb,
                 T, gv, Zc, Zo, Ti, x_n, u_n, y_n, twin_SS, twin_x, twin_y, caller_u, pre>>

\* Cw = Freq.get_Cw_cpx(zval)
FreqGetCwCpx(zval) ==
  /\ Freq # None /\ ncalls < MaxCalls
  /\ call' = [NoCall EXCEPT !.op = "Frequency.get_Cw_cpx", !.zval = zval]
  /\ ret' = Some(Frequency_get_Cw_cpx(zval))
  /\ err' = "none"
  /\ ncalls' = ncalls + 1
  /\ UNCHANGED <<tsdata, controller, controlled_state, hist, lin, Freq, SSb_shared, Sta, rec, printed, exists, dt, integr_order,
                 Nx, Nu, Ny, remove_predictor, use_sparse, ScalingFacts, B_predictor, SS, SSb,
                 T, gv, Zc, Zo, Ti, x_n, u_n, y_n, twin_SS, twin_x, twin_y, caller_u, pre>>

\* The Dynamic model is built with a scaling dictionary, assembled and
\* non-dimensionalised once, and asked for responses; then the Frequency instance is
\* built with the settings of the Dynamic one (integration orders 1, 2 and the
\* rejected 3), assembled, non-dimensionalised once, and asked for responses.
NextFreq ==
  \/ \E dt_ \in Dts, order \in {1, 2}, rp \in BOOLEAN, sd \in ScalingDicts \ {DefaultScalingDict},
        sparse \in BOOLEAN : Construct(dt_, order, rp, sd, sparse)
  \/ assemble_ss
  \/ pre = None /\ Freq = None /\ CallNondimss
  \/ /\ pre # None /\ Freq = None
     /\ \E kv \in Grids(SS[1].dt) : CallFreqresp(kv)
  \/ /\ pre # None
     /\ \E order \in {integr_order, 3}, sd \in ScalingDicts :
          /\ InitScalingFacts(sd) = ScalingFacts
          /\ FreqNew(dt, order, remove_predictor, sd, use_sparse)
  \/ FreqAssemble
  \/ /\ Freq # None /\ Freq[1].dt = dt
     /\ FreqNondimss
  \/ /\ Freq # None
     /\ \E kv \in Grids(Freq[1].dt) : FreqFreqresp(kv)

InitFreq == tsdata \in FreqData /\ NothingBuilt

SpecFreq == InitFreq /\ [][NextFreq]_vars

(* ---------------------------------------------------------------------- *)
(* Properties of the time stepper (SpecStep)                                *)
(* ---------------------------------------------------------------------- *)

\* the state a solve_step call was made in: its last call is a solve_step
Stepped == call.op = "solve_step"

\* C1: the predictor-removed model, marched with transform_state=True, and the
\* direct-form model of the same assembly, marched from the same initial state with
\* the same inputs, have the same state x and the same output y after every step.
C1_SameTrajectory ==
  (Stepped /\ remove_predictor /\ call.transform_state) =>
     /\ x_n = twin_x
     /\ y_n = twin_y

\* the second step of such a march, with an input that changed during the step
C1_Witness ==
  /\ Stepped /\ remove_predictor /\ call.transform_state
  /\ ncalls >= 2 /\ call.u_n1 # None /\ u_n # call.u_n
  /\ x_n = twin_x /\ y_n = twin_y
  /\ \E i \in 1..Len(y_n) : y_n[i] # RZero

C3_PredictorRemovedForm ==
  (Stepped /\ remove_predictor /\ call.u_n1 # None) =>
     \A m \in {SS[1]} :
       \A h \in {IF call.transform_state
                   THEN VecSub(call.x_n, MatVec(B_predictor[1], call.u_n))
                   ELSE call.x_n} :
         \A h1 \in {VecAdd(MatVec(m.A, h), MatVec(m.B, call.u_n))} :
           /\ y_n = VecAdd(MatVec(m.C, h1), MatVec(m.D, call.u_n1[1]))
           /\ x_n = IF call.transform_state
                      THEN VecAdd(h1, MatVec(B_predictor[1], call.u_n1[1]))
                      ELSE h1

\* a transforming predictor-removed step where B_predictor u_n1 differs from B_predictor u_n
C3_Witness ==
  /\ Stepped /\ remove_predictor /\ call.u_n1 # None /\ call.transform_state
  /\ MatVec(B_predictor[1], call.u_n1[1]) # MatVec(B_predictor[1], call.u_n)
  /\ x_n # VecAdd(MatVec(SS[1].A, call.x_n), MatVec(SS[1].B, call.u_n))

\* C4: solve_step(x_n, u_n) without u_n1 returns the state and output of
\* solve_step(x_n, u_n, u_n1=u_n), for both forms, raises nothing and leaves the
\* caller's u_n as it was.
C4_DefaultNextInput ==
  (Stepped /\ call.u_n1 = None) =>
     \A r \in {solve_step(Self, call.x_n, call.u_n, Some(call.u_n), call.transform_state)} :
       /\ x_n = r.x_n1
       /\ y_n = r.y_n1
       /\ err = "none"
       /\ caller_u = call.u_n

\* a step without u_n1 on a predictor-removed model, with a nonzero current input
C4_Witness ==
  /\ Stepped /\ call.u_n1 = None /\ remove_predictor /\ err = "none"
  /\ \E j \in 1..Len(call.u_n) : call.u_n[j] # RZero
  /\ caller_u = call.u_n
  /\ \E i \in 1..Len(y_n) : y_n[i] # RZero

(* ---------------------------------------------------------------------- *)
(* Properties of construction, assembly, scaling and reduction (Spec)       *)
(* ---------------------------------------------------------------------- *)

\* P is an r x c array
HasShape(P, r, c) ==
  /\ P.r = r /\ P.c = c
  /\ Len(P.v) = r
  /\ \A i \in 1..r : Len(P.v[i]) = c

\* C5: every Dynamic model has Nx = 2K+K* (integr_order 1) or 3K+K* (integr_order 2),
\* Nu = 9 Kzeta and Ny = 3 Kzeta, and after assemble_ss A is Nx x Nx, B is Nx x Nu,
\* C is Ny x Nx and D is Ny x Nu, whatever remove_predictor and use_sparse are.
C5_Sizes ==
  /\ exists =>
       /\ integr_order = 1 => Nx = 2 * K + K_star
       /\ integr_order = 2 => Nx = 3 * K + K_star
       /\ Nu = 9 * Kzeta
       /\ Ny = 3 * Kzeta
  /\ SS # None =>
       /\ HasShape(SS[1].A, Nx, Nx)
       /\ HasShape(SS[1].B, Nx, Nu)
       /\ HasShape(SS[1].C, Ny, Nx)
       /\ HasShape(SS[1].D, Ny, Nu)

\* an assembled first-order, predictor-removed, sparse model of a lattice with K # K*
C5_Witness ==
  /\ SS # None /\ integr_order = 1 /\ remove_predictor /\ use_sparse
  /\ K # K_star
  /\ Nx = 2 * K + K_star /\ HasShape(SS[1].B, 2 * K + K_star, 9 * Kzeta)

\* C6: an integration order other than 1 or 2 is rejected with an error at
\* construction: no instance with such an order exists, and no model SS is assembled
\* for one.
C6_OrderRejected ==
  /\ (call.op = "__init__" /\ call.order \notin {1, 2}) =>
        (err = "NameError" /\ ~exists /\ SS = None)
  /\ exists => integr_order \in {1, 2}
  /\ SS # None => (exists /\ integr_order \in {1, 2})

\* a construction with order 3 that ended in the error
C6_Witness ==
  call.op = "__init__" /\ call.order = 3 /\ err = "NameError" /\ ~exists /\ SS = None

\* C7: nondimss() followed by dimss() restores SS.B, SS.C, SS.D and SS.dt to
\* their values before the two calls, and SS.A is the same before and after.
C7_RoundTrip ==
  (call.op = "dimss" /\ pre # None) =>
     /\ SS[1].B = pre[1].B
     /\ SS[1].C = pre[1].C
     /\ SS[1].D = pre[1].D
     /\ SS[1].dt = pre[1].dt
     /\ SS[1].A = pre[1].A

\* a dimss() right after a nondimss(), with scaling factors other than one
C7_Witness ==
  /\ call.op = "dimss" /\ pre # None
  /\ ScalingFacts.length # ROne /\ ScalingFacts.speed # ROne /\ ScalingFacts.density # ROne
  /\ SS = pre
  /\ SS[1].B # nondimss(SS[1], ScalingFacts).B

\* a call of op that returned or raised: a step of the instance whose last call is op
Called(op) == call'.op = op /\ ncalls' = ncalls + 1

\* C8: nondimss() multiplies the position columns of B (the first 3 Kzeta) by
\* length/circulation and its other columns by speed/circulation, all of C by
\* circulation/force, the position columns of D by length/force and its other columns
\* by speed/force, and divides dt by time, with time = length/speed,
\* circulation = speed*length, force = 0.5*density*speed^2*length^2; nothing else of
\* the model changes.
C8_NondimssFactors ==
  [][Called("nondimss") =>
       LET length == ScalingFacts.length
           speed == ScalingFacts.speed
           density == ScalingFacts.density
           time == RDiv(length, speed)
           circulation == RMul(speed, length)
           force == RMul(RMul(<<1, 2>>, density),
                         RMul(RMul(speed, speed), RMul(length, length)))
           old == SS[1]
           new == SS'[1]
       IN /\ new.B = Mat(Nx, Nu, LAMBDA i, j :
                           RMul(old.B.v[i][j],
                                IF j <= 3 * Kzeta THEN RDiv(length, circulation)
                                ELSE RDiv(speed, circulation)))
          /\ new.C = Mat(Ny, Nx, LAMBDA i, j :
                           RMul(old.C.v[i][j], RDiv(circulation, force)))
          /\ new.D = Mat(Ny, Nu, LAMBDA i, j :
                           RMul(old.D.v[i][j],
                                IF j <= 3 * Kzeta THEN RDiv(length, force)
                                ELSE RDiv(speed, force)))
          /\ new.dt = RDiv(old.dt, time)
          /\ new.A = old.A
          /\ new.states = old.states /\ new.inputs = old.inputs
          /\ new.outputs = old.outputs
          /\ UNCHANGED <<tsdata, exists, dt, integr_order, Nx, Nu, Ny, remove_predictor,
                         use_sparse, ScalingFacts, B_predictor>>
    ]_vars

\* a model right after nondimss() with factors other than one: B, C, D and dt changed
C8_Witness ==
  /\ call.op = "nondimss" /\ pre # None
  /\ ScalingFacts.length # ROne /\ ScalingFacts.speed # ROne /\ ScalingFacts.density # ROne
  /\ SS[1].B # pre[1].B /\ SS[1].C # pre[1].C /\ SS[1].D # pre[1].D
  /\ SS[1].dt # pre[1].dt /\ SS[1].A = pre[1].A

\* C9: balfreq on a model assembled with remove_predictor=True fails before any
\* Gramian factor is computed: it raises, sets none of SSb, T, gv, Zc, Zo, and
\* leaves SS unchanged.
C9_BalfreqNeedsPredictor ==
  [][(Called("balfreq") /\ remove_predictor) =>
       /\ err' = "NameError"
       /\ SSb = None /\ T = None /\ gv = None /\ Zc = None /\ Zo = None
       /\ SSb' = None /\ T' = None /\ gv' = None /\ Zc' = None /\ Zo' = None
       /\ SS' = SS
    ]_vars

\* a balfreq call with both weights on a second-order predictor-removed model that failed
C9_Witness ==
  /\ call.op = "balfreq" /\ call.weights /\ remove_predictor /\ integr_order = 2
  /\ err = "NameError"
  /\ SS # None /\ SSb = None /\ T = None /\ gv = None /\ Zc = None /\ Zo = None

\* C10: the reduced model balfreq produces is the projection of the full model by the
\* balancing pair: A_r = Ti A T, B_r = Ti B, C_r = C T, D_r = D and the same dt, so it
\* has the inputs and outputs of the full model.
C10_Projection ==
  (call.op = "balfreq" /\ err = "none") =>
     \A m \in {SS[1]}, r \in {SSb[1]}, t \in {T[1]}, ti \in {Ti[1]} :
       /\ r.A = MatMul(MatMul(ti, m.A), t)
       /\ r.B = MatMul(ti, m.B)
       /\ r.C = MatMul(m.C, t)
       /\ r.D = m.D
       /\ r.dt = m.dt
       /\ r.inputs = m.inputs /\ r.outputs = m.outputs
       /\ HasShape(r.B, r.states, m.inputs) /\ HasShape(r.C, m.outputs, r.states)

\* a successful balfreq on a model with a nonzero feed-through; the reduced model has
\* another number of states than the full one
C10_Witness ==
  /\ call.op = "balfreq" /\ err = "none" /\ SSb # None /\ ~remove_predictor
  /\ SSb[1].D = SS[1].D /\ SSb[1].D # zeros(Ny, Nu)
  /\ SSb[1].states # SS[1].states
  /\ SSb[1].inputs = Nu /\ SSb[1].outputs = Ny

RLeq(a, b) == a[1] * b[2] <= b[1] * a[2]

DirectSolved ==
  call.op = "solve_steady" /\ call.method = "direct" /\ err = "none" /\ ret # None

\* Static has solved for the input perturbation the last solve_steady was given
SameInput ==
  /\ Sta # None /\ Sta[1].gamma # None /\ Sta[1].fqs # None
  /\ call.usta = Sta[1].zeta \o Sta[1].zeta_dot \o Sta[1].u_ext

\* C14: the steady state solve_steady(u, 'direct') returns for u = (zeta, zeta_dot,
\* u_ext) is the fixed point of the time step, its output is the force fqs of
\* Static.solve for the same zeta, zeta_dot, u_ext, for both integration orders, with
\* and without predictor removal, sparse and dense, and without predictor removal its
\* first K entries are Static's gamma.
C14_SteadyStateMatchesStatic ==
  DirectSolved =>
     \A m \in {SS[1]}, x \in {ret[1].xsta} :
       /\ x = VecAdd(MatVec(m.A, x), MatVec(m.B, call.usta))
       /\ ret[1].ysta = VecAdd(MatVec(m.C, x), MatVec(m.D, call.usta))
       /\ SameInput =>
            /\ ret[1].ysta = Sta[1].fqs[1]
            /\ ~remove_predictor => SubSeq(x, 1, K) = Sta[1].gamma[1]

\* a predictor-removed sparse model of two surfaces with a wake that acts on the bound
\* panels: its steady output is Static's nonzero force
C14_Witness ==
  /\ DirectSolved /\ SameInput
  /\ remove_predictor /\ use_sparse /\ n_surf = 2 /\ tsdata.wake = "regular"
  /\ ret[1].ysta = Sta[1].fqs[1]
  /\ \E i \in 1..Len(ret[1].ysta) : ret[1].ysta[i] # RZero
  /\ AIC # A0

\* C15: at the steady state of a model assembled without predictor removal, every
\* wake panel has the circulation of the trailing-edge bound panel of its surface and
\* spanwise index, the circulation-derivative block is zero, and with integration
\* order 2 the delayed-circulation block equals the bound-circulation block.
C15_SteadyStateStructure ==
  (DirectSolved /\ ~remove_predictor) =>
     \A x \in {ret[1].xsta} :
       /\ \A s \in 1..n_surf : \A mm \in 0..(MM_star(s) - 1) : \A nn \in 1..NN(s) :
            x[K + K0star(s) + mm * NN(s) + nn] = x[K0(s) + NN(s) * (MM(s) - 1) + nn]
       /\ \A i \in 1..K : x[K + K_star + i] = RZero
       /\ integr_order = 2 => \A i \in 1..K : x[2 * K + K_star + i] = x[i]

\* a second-order steady state of a lattice with two spanwise panels and two wake
\* rows, whose two trailing-edge circulations differ and are not zero
C15_Witness ==
  /\ DirectSolved /\ ~remove_predictor /\ integr_order = 2
  /\ n_surf = 1 /\ NN(1) = 2 /\ MM_star(1) = 2
  /\ ret[1].xsta[1] # RZero /\ ret[1].xsta[1] # ret[1].xsta[2]
  /\ ret[1].xsta[K + 3] = ret[1].xsta[1] /\ ret[1].xsta[K + 4] = ret[1].xsta[2]
  /\ ret[1].xsta[2 * K + K_star + 1] = ret[1].xsta[1]

\* C17: when the loop of solve_steady(usta, method='recursive') is left without the
\* residual being under the tolerance, the call ends with a ConvergenceFailure error
\* and returns no state and output.
C17_NonConvergenceSurfaces ==
  [][(rec # None /\ rec' = None /\ ~er_below_tol(rec[1].er2))
       => (err' = "ConvergenceFailure" /\ ret' = None)]_vars

\* a solve_steady that returned a state and output, by one of the four methods, on a
\* dense model without predictor removal; for 'recursive', with the residual under the
\* tolerance
MethodSolved ==
  /\ call.op = "solve_steady" /\ err = "none" /\ ret # None /\ rec = None
  /\ call.method \in {"direct", "minsize", "recursive", "subsystem"}
  /\ call.method = "recursive" => printed = None
  /\ ~remove_predictor /\ ~use_sparse

\* C20: on a dense model without predictor removal, each of the four methods of
\* solve_steady returns the state vector xsta and the output ysta that method
\* 'direct' returns for the same input, for integration orders 1 and 2.
C20_MethodsAgree ==
  MethodSolved =>
    \A d \in {solve_steady(SelfSteady, call.usta, "direct").ret[1]} :
      ret[1].xsta = d.xsta /\ ret[1].ysta = d.ysta

\* what holds of the four methods: the outputs agree, and the states agree except
\* for method 'subsystem' on a model with the delayed-circulation block
C20_OutputsAgree ==
  MethodSolved =>
    \A d \in {solve_steady(SelfSteady, call.usta, "direct").ret[1]} :
      /\ ret[1].ysta = d.ysta
      /\ ~(call.method = "subsystem" /\ integr_order = 2) => ret[1].xsta = d.xsta
      /\ (call.method = "subsystem" /\ integr_order = 2) =>
            /\ SubSeq(ret[1].xsta, 1, 2 * K + K_star) = SubSeq(d.xsta, 1, 2 * K + K_star)
            /\ \A i \in 1..K : ret[1].xsta[2 * K + K_star + i] = RZero

C17_NotConverged ==
  call.op = "solve_steady" /\ call.method = "recursive" /\ rec = None
  /\ ret # None /\ err = "none" /\ printed # None

(* ---------------------------------------------------------------------- *)
(* Properties of the Static solver (SpecStatic)                             *)
(* ---------------------------------------------------------------------- *)

\* C16: a Static.solve on an assembled instance whose influence matrix AIC is
\* singular ends in an error, and the instance's gamma and fqs are after the call what
\* they were before it (unset if no solve had succeeded).
C16_SingularSolveFails ==
  [][(Sta # None /\ Sta[1].assembled /\ call'.op = "Static.solve" /\ Det(AIC) = RZero)
       => /\ err' = "LinAlgError"
          /\ Sta'[1].gamma = Sta[1].gamma
          /\ Sta'[1].fqs = Sta[1].fqs]_vars

\* a solve that failed on a singular AIC, with input 2, leaving gamma and fqs unset
C16_Witness ==
  /\ Sta # None /\ Sta[1].assembled /\ Det(AIC) = RZero
  /\ call.op = "Static.solve" /\ call.usta = Usta(2) /\ err = "LinAlgError"
  /\ Sta[1].gamma = None /\ Sta[1].fqs = None

\* C19: Kftot is the nodal summation: applied to the force vector fqs it gives, per
\* component, the sum of that component over every vertex of every surface, which is
\* the Ftot that a total_forces call accumulates from the reshaped fqs.
C19_TotalForceGain ==
  (Sta # None /\ Sta[1].Kftot # None /\ Sta[1].fqs # None) =>
     \A f \in {Sta[1].fqs[1]}, tot \in {MatVec(Sta[1].Kftot[1], Sta[1].fqs[1])} :
       /\ HasShape(Sta[1].Kftot[1], 3, 3 * Kzeta)
       /\ \A cc \in 1..3 :
            tot[cc] = SumR(LAMBDA sf :
                       SumR(LAMBDA v : f[3 * SumN(LAMBDA t : KKzeta(t), sf - 1)
                                           + (cc - 1) * KKzeta(sf) + v], 1, KKzeta(sf)),
                       1, n_surf)
       /\ (call.op = "Static.total_forces" /\ err = "none"
             /\ Sta[1].Fqs = Static_reshape(Sta[1]).sta.Fqs)
            => tot = Sta[1].Ftot[1]

\* two surfaces of different panel counts, a nonzero total force accumulated from the
\* current fqs, and the gain matrix built
C19_Witness ==
  /\ Sta # None /\ Sta[1].Kftot # None /\ Sta[1].fqs # None /\ Sta[1].Ftot # None
  /\ call.op = "Static.total_forces" /\ err = "none"
  /\ n_surf = 2 /\ KKzeta(1) # KKzeta(2)
  /\ Sta[1].Fqs = Static_reshape(Sta[1]).sta.Fqs
  /\ MatVec(Sta[1].Kftot[1], Sta[1].fqs[1]) = Sta[1].Ftot[1]
  /\ \E cc \in 1..3 : Sta[1].Ftot[1][cc] # RZero

(* ---------------------------------------------------------------------- *)
(* Properties of the assembler (SpecAssembler)                              *)
(* ---------------------------------------------------------------------- *)

\* the ranges [first, end) of a mapping are pairwise disjoint, contiguous, and cover
\* exactly [0, n)
Partitions(m, n) ==
  /\ \A v \in DOMAIN m : 0 <= m[v][1] /\ m[v][1] <= m[v][2] /\ m[v][2] <= n
  /\ \A i \in 0..(n - 1) :
       \E v \in DOMAIN m :
         /\ m[v][1] <= i /\ i < m[v][2]
         /\ \A w \in DOMAIN m : (m[w][1] <= i /\ i < m[w][2]) => w = v

C18_InputRanges ==
  lin # None =>
    \A sv \in {lin[1].state_variables}, iv \in {lin[1].input_variables} :
      /\ iv.zeta = <<0, 3 * Kzeta>>
      /\ iv.zeta_dot = <<3 * Kzeta, 6 * Kzeta>>
      /\ iv.u_gust = <<6 * Kzeta, 9 * Kzeta>>
      /\ Partitions(iv, Nu)
      /\ sv.gamma = <<0, K>>
      /\ sv.gamma_w = <<K, K_star>>
      /\ sv.dtgamma_dot = <<K + K_star, 2 * K + K_star>>
      /\ sv.gamma_m1 = <<2 * K + K_star, 3 * K + K_star>>

FreqMatchesDyn ==
  /\ Freq # None /\ SS # None /\ pre # None
  /\ Freq[1].integr_order = integr_order
  /\ Freq[1].remove_predictor = remove_predictor
  /\ Freq[1].use_sparse = use_sparse
  /\ Freq[1].ScalingFacts = ScalingFacts
  /\ Freq[1].dt = SS[1].dt /\ Freq[1].dt # dt

\* C13: the response Dynamic.freqresp returns (model without predictor removal) and
\* the response Frequency.freqresp returns (with and without predictor removal, the
\* instance non-dimensionalised) are, at every frequency of the grid, the reference
\* C (zI - A)^-1 B + D of the assembled, non-dimensionalised Dynamic model, sparse
\* and dense.
C13_FastResponseIsReference ==
  /\ (call.op = "Dynamic.freqresp" /\ err = "none")
       => ret[1] = libss_freqresp(SS[1], call.usta)
  /\ (call.op = "Frequency.freqresp" /\ err = "none" /\ FreqMatchesDyn)
       => ret[1] = libss_freqresp(SS[1], call.usta)

\* a Frequency response with predictor removal, integration order 2, two wake rows,
\* at a quarter and no turn per step; it has an entry with an imaginary part
C13_Witness ==
  /\ call.op = "Frequency.freqresp" /\ err = "none" /\ FreqMatchesDyn
  /\ remove_predictor /\ integr_order = 2 /\ MM_star(1) = 2
  /\ Len(ret[1]) = 2
  /\ zv(call.usta[2], Freq[1].dt) = <<RZero, ROne>>
  /\ \E i \in 1..(3 * Kzeta), j \in 1..(9 * Kzeta) : ret[1][2].v[i][j][2] # RZero
  /\ ret[1] = libss_freqresp(SS[1], call.usta)

\* a Dynamic response on a sparse model of integration order 1
C13_WitnessDynamic ==
  /\ call.op = "Dynamic.freqresp" /\ err = "none"
  /\ use_sparse /\ integr_order = 1 /\ ~remove_predictor
  /\ zv(call.usta[1], SS[1].dt) = <<RInt(-1), RZero>>
  /\ ret[1] = libss_freqresp(SS[1], call.usta)

(* ---------------------------------------------------------------------- *)
(* The circulation-derivative and delayed-circulation blocks (SpecStep)     *)
(* ---------------------------------------------------------------------- *)

\* n entries of the state vector x after the first off
Blk(x, off, n) == Vec(n, LAMBDA i : x[off + i])

\* a direct-form step of a model of the given integration order, from a state whose
\* bound circulation is not zero
DirectStep(order) ==
  /\ Stepped /\ ~remove_predictor /\ integr_order = order /\ err = "none"

\* C21 (as stated): with second-order integration a direct-form step gives
\* delta[n+1] = -2 Gamma[n+1] + 0.5 Gamma[n-1] + 1.5 Gamma[n] and the delayed block
\* takes Gamma[n]; with first-order integration there is no delayed block and
\* delta[n+1] = Gamma[n+1] - Gamma[n].
C21_DerivativeAsStated ==
  /\ DirectStep(2) =>
       /\ Len(x_n) = 3 * K + K_star
       /\ Blk(x_n, 2 * K + K_star, K) = Blk(call.x_n, 0, K)
       /\ \A i \in 1..K :
            x_n[K + K_star + i] =
              RAdd(RAdd(RMul(RInt(-2), x_n[i]), RMul(<<1, 2>>, call.x_n[2 * K + K_star + i])),
                   RMul(<<3, 2>>, call.x_n[i]))
  /\ DirectStep(1) =>
       /\ Len(x_n) = 2 * K + K_star
       /\ \A i \in 1..K : x_n[K + K_star + i] = RSub(x_n[i], call.x_n[i])

\* C21 (amended): the coefficients 1.5, -2 and 0.5 apply to the n+1, n and n-1
\* bound circulations: delta[n+1] = 1.5 Gamma[n+1] - 2 Gamma[n] + 0.5 Gamma[n-1]; the
\* delayed block takes Gamma[n] through an identity map; with first-order integration
\* there is no delayed block and delta[n+1] = Gamma[n+1] - Gamma[n].
C21_BackwardDifference ==
  /\ DirectStep(2) =>
       /\ Len(x_n) = 3 * K + K_star
       /\ Blk(x_n, 2 * K + K_star, K) = Blk(call.x_n, 0, K)
       /\ \A i \in 1..K :
            x_n[K + K_star + i] =
              RAdd(RAdd(RMul(<<3, 2>>, x_n[i]), RMul(RInt(-2), call.x_n[i])),
                   RMul(<<1, 2>>, call.x_n[2 * K + K_star + i]))
  /\ DirectStep(1) =>
       /\ Len(x_n) = 2 * K + K_star
       /\ \A i \in 1..K : x_n[K + K_star + i] = RSub(x_n[i], call.x_n[i])

\* a second-order direct-form step in which the three bound circulations are nonzero
\* and differ from one another
C21_Witness ==
  /\ DirectStep(2)
  /\ \E i \in 1..K :
       /\ x_n[i] # RZero /\ call.x_n[i] # RZero /\ call.x_n[2 * K + K_star + i] # RZero
       /\ x_n[i] # call.x_n[i] /\ call.x_n[i] # call.x_n[2 * K + K_star + i]
       /\ x_n[2 * K + K_star + i] = call.x_n[i]

\* a first-order direct-form step from a state with nonzero bound circulation
C21_WitnessFirstOrder ==
  /\ DirectStep(1)
  /\ \E i \in 1..K : call.x_n[i] # RZero /\ x_n[K + K_star + i] = RSub(x_n[i], call.x_n[i])

(* ---------------------------------------------------------------------- *)
(* Wake convection: time marching on lattices with several spanwise panels  *)
(* and surfaces of different panel counts (SpecWake)                        *)
(* ---------------------------------------------------------------------- *)

WakeData ==
  { [surfs |-> <<[M |-> 1, N |-> 2, Mstar |-> 2]>>, wake |-> "regular"],
    [surfs |-> <<[M |-> 1, N |-> 1, Mstar |-> 2], [M |-> 1, N |-> 2, Mstar |-> 1]>>,
     wake |-> "regular"] }

NextWake ==
  \/ \E dt_ \in Dts, order \in {1, 2}, rp \in BOOLEAN :
        Construct(dt_, order, rp, DefaultScalingDict, FALSE)
  \/ assemble_ss
  \/ \E u1 \in {None} \cup { Some(u) : u \in Inputs }, ts \in BOOLEAN : CallSolveStep(u1, ts)

InitWake == tsdata \in WakeData /\ NothingBuilt

SpecWake == InitWake /\ [][NextWake]_vars

\* position in the state vector of the wake panel (chordwise row m, spanwise index n,
\* both 0-based) of surface s, and position of the trailing-edge bound panel of the
\* same surface and spanwise index
WakeAt(s, m, n) == K + K0star(s) + m * NN(s) + n + 1
TrailingEdgeAt(s, n) == K0(s) + NN(s) * (MM(s) - 1) + n + 1

\* C22: after every step of the direct-form model, wake row 0 of each surface holds
\* the previous step's trailing-edge bound circulation of the same surface and
\* spanwise index, wake row m > 0 holds the previous step's value of wake row m-1, and
\* after at least m+1 steps wake row m holds the trailing-edge bound circulation of
\* m+1 steps earlier.
C22_WakeConvects ==
  Len(hist) >= 2 =>
    \A cur \in {hist[Len(hist)]}, prev \in {hist[Len(hist) - 1]} :
      \A s \in 1..n_surf : \A n \in 0..(NN(s) - 1) : \A m \in 0..(MM_star(s) - 1) :
        /\ m = 0 => cur[WakeAt(s, 0, n)] = prev[TrailingEdgeAt(s, n)]
        /\ m > 0 => cur[WakeAt(s, m, n)] = prev[WakeAt(s, m - 1, n)]
        /\ Len(hist) > m + 1 =>
             cur[WakeAt(s, m, n)] = hist[Len(hist) - (m + 1)][TrailingEdgeAt(s, n)]

\* after three steps on the lattice with two spanwise panels, the second wake row holds
\* the trailing-edge circulations of two steps earlier, which are nonzero, differ
\* between the spanwise indices and differ from those of one step earlier
C22_Witness ==
  /\ Len(hist) = 4 /\ n_surf = 1 /\ NN(1) = 2 /\ MM_star(1) = 2
  /\ \A n \in 0..1 :
       /\ hist[4][WakeAt(1, 1, n)] = hist[2][TrailingEdgeAt(1, n)]
       /\ hist[2][TrailingEdgeAt(1, n)] # RZero
       /\ hist[2][TrailingEdgeAt(1, n)] # hist[3][TrailingEdgeAt(1, n)]
  /\ hist[2][TrailingEdgeAt(1, 0)] # hist[2][TrailingEdgeAt(1, 1)]

\* a step on the lattice of two surfaces of different panel counts, with distinct
\* nonzero trailing-edge circulations entering the wakes
C22_WitnessSurfaces ==
  /\ Len(hist) >= 3 /\ n_surf = 2
  /\ hist[Len(hist)][WakeAt(2, 0, 1)] = hist[Len(hist) - 1][TrailingEdgeAt(2, 1)]
  /\ hist[Len(hist)][WakeAt(2, 0, 1)] # RZero
  /\ hist[Len(hist)][WakeAt(2, 0, 1)] # hist[Len(hist)][WakeAt(2, 0, 0)]
  /\ hist[Len(hist)][WakeAt(2, 0, 1)] # hist[Len(hist)][WakeAt(1, 0, 0)]

(* ---------------------------------------------------------------------- *)
(* The wake operator at a frequency, get_Cw_cpx (SpecCw)                    *)
(* ---------------------------------------------------------------------- *)

\* lattices of one, two and three surfaces with different panel counts
CwData ==
  { [surfs |-> <<[M |-> 2, N |-> 2, Mstar |-> 3]>>, wake |-> "regular"],
    [surfs |-> <<[M |-> 1, N |-> 2, Mstar |-> 2], [M |-> 2, N |-> 3, Mstar |-> 1]>>,
     wake |-> "regular"],
    [surfs |-> <<[M |-> 2, N |-> 1, Mstar |-> 1], [M |-> 1, N |-> 1, Mstar |-> 3],
                 [M |-> 3, N |-> 2, Mstar |-> 2]>>, wake |-> "regular"] }

\* the arguments zval: on the unit circle (exp(j k dt) of freqresp) and off it
Zvals ==
  { <<ROne, RZero>>, <<RZero, ROne>>, <<RInt(-1), RZero>>, <<<<3, 5>>, <<-4, 5>>>>,
    <<RInt(2), RZero>>, <<<<1, 2>>, <<1, 2>>>> }

NextCw ==
  \/ \E dt_ \in Dts, rp \in BOOLEAN : Construct(dt_, 2, rp, DefaultScalingDict, FALSE)
  \/ \E zval \in Zvals : CallGetCwCpx(zval)
  \/ \E dt_ \in Dts, order \in {1, 2} : FreqNew(dt_, order, FALSE, DefaultScalingDict, FALSE)
  \/ \E zval \in Zvals : FreqGetCwCpx(zval)

InitCw == tsdata \in CwData /\ NothingBuilt

SpecCw == InitCw /\ [][NextCw]_vars

\* a state get_Cw_cpx of either class has just returned in
GotCw == call.op \in {"Dynamic.get_Cw_cpx", "Frequency.get_Cw_cpx"}

\* C23: get_Cw_cpx(z) returns a K_star x K matrix whose row of the wake panel (row m,
\* spanwise index n) of surface s has z^-(m+1) in the column of the trailing-edge
\* bound panel (last row, spanwise index n) of surface s and zero elsewhere; every row
\* is the row of one wake panel; Dynamic.get_Cw_cpx and Frequency.get_Cw_cpx return
\* the same matrix.
C23_CwStructure ==
  GotCw =>
    /\ ret # None
    /\ \A Cw \in {ret[1]} :
         /\ Cw.r = K_star /\ Cw.c = K
         /\ \A s \in 1..n_surf : \A m \in 0..(MM_star(s) - 1) : \A n \in 0..(NN(s) - 1) :
              \A j \in 1..K :
                Cw.v[WakeAt(s, m, n) - K][j] =
                  IF j = TrailingEdgeAt(s, n) THEN CPow(call.zval, -(m + 1)) ELSE CZero
         /\ UNION { { WakeAt(s, m, n) - K : m \in 0..(MM_star(s) - 1), n \in 0..(NN(s) - 1) } :
                     s \in 1..n_surf } = 1..K_star
         /\ Cw = get_Cw_cpx(call.zval)
         /\ Cw = Frequency_get_Cw_cpx(call.zval)

\* Frequency.get_Cw_cpx returned on the lattice of three surfaces, at a z off the real
\* axis: the second wake row of the third surface has z^-2 at that surface's trailing
\* edge, which differs from z^-1
C23_Witness ==
  /\ call.op = "Frequency.get_Cw_cpx" /\ n_surf = 3 /\ ret # None
  /\ call.zval[2] # RZero
  /\ ret[1].v[WakeAt(3, 1, 1) - K][TrailingEdgeAt(3, 1)] = CPow(call.zval, -2)
  /\ CPow(call.zval, -2) # CPow(call.zval, -1)
  /\ CPow(call.zval, -2) # CZero

\* Dynamic.get_Cw_cpx returned on a lattice of two surfaces
C23_WitnessDynamic ==
  /\ call.op = "Dynamic.get_Cw_cpx" /\ n_surf = 2 /\ ret # None
  /\ ret[1].v[WakeAt(2, 0, 2) - K][TrailingEdgeAt(2, 2)] = CPow(call.zval, -1)

(* ---------------------------------------------------------------------- *)
(* Velocities enter as a difference (SpecSteady)                            *)
(* ---------------------------------------------------------------------- *)

\* velocity perturbations v added to both the vertex velocity and the external velocity
Shifts ==
  { Vec(3 * Kzeta, LAMBDA i : RInt((i % 3) + 1)),
    Vec(3 * Kzeta, LAMBDA i : IF i % 2 = 0 THEN <<-1, 2>> ELSE RInt(i)) }

\* the input (zeta, zeta_dot, u_ext) = (0, v, v)
EqualVelocities(v) ==
  Vec(9 * Kzeta, LAMBDA j : IF j <= 3 * Kzeta THEN RZero
                            ELSE IF j <= 6 * Kzeta THEN v[j - 3 * Kzeta]
                            ELSE v[j - 6 * Kzeta])

\* the columns 3Kzeta..6Kzeta of P are the negative of its columns 6Kzeta..9Kzeta
OppositeVelocityBlocks(P) ==
  /\ P.c = 9 * Kzeta
  /\ \A i \in 1..P.r : \A j \in 1..(3 * Kzeta) :
       P.v[i][3 * Kzeta + j] = RNeg(P.v[i][6 * Kzeta + j])

\* C24: in the B and D of an assembled model, predictor removed or not, the
\* vertex-velocity column block is the negative of the external-velocity block, and an
\* input with zero zeta and equal zeta_dot and u_ext gives B u = 0 and D u = 0; a
\* Static.solve returns the gamma and fqs it returns when the same vector is added to
\* both u_ext and zeta_dot.
C24_RelativeVelocityOnly ==
  /\ SS # None =>
       /\ OppositeVelocityBlocks(SS[1].B)
       /\ OppositeVelocityBlocks(SS[1].D)
       /\ remove_predictor => OppositeVelocityBlocks(B_predictor[1])
       /\ \A v \in Shifts :
            /\ MatVec(SS[1].B, EqualVelocities(v)) = Vec(Nx, LAMBDA i : RZero)
            /\ MatVec(SS[1].D, EqualVelocities(v)) = Vec(Ny, LAMBDA i : RZero)
  /\ (Sta # None /\ call.op = "Static.solve" /\ err = "none") =>
       \A v \in Shifts :
         \A res \in {Static_solve([Sta[1] EXCEPT !.u_ext = VecAdd(@, v),
                                                 !.zeta_dot = VecAdd(@, v)])} :
           /\ res.err = "none"
           /\ res.sta.gamma = Sta[1].gamma
           /\ res.sta.fqs = Sta[1].fqs

\* a predictor-removed model whose B_mod and D_mod have nonzero velocity blocks,
\* assembled on a lattice whose Static solve had different vertex and external
\* velocities and a nonzero circulation
C24_Witness ==
  /\ SS # None /\ remove_predictor
  /\ \E i \in 1..Nx : \E j \in 1..(3 * Kzeta) : SS[1].B.v[i][3 * Kzeta + j] # RZero
  /\ \E i \in 1..Ny : \E j \in 1..(3 * Kzeta) : SS[1].D.v[i][6 * Kzeta + j] # RZero
  /\ SS[1].B # B_predictor[1]
  /\ Sta # None /\ Sta[1].gamma # None /\ Sta[1].u_ext # Sta[1].zeta_dot
  /\ \E i \in 1..K : Sta[1].gamma[1][i] # RZero

\* a Static.solve that succeeded with different vertex and external velocities
C24_WitnessStatic ==
  /\ Sta # None /\ call.op = "Static.solve" /\ err = "none"
  /\ Sta[1].u_ext # Sta[1].zeta_dot
  /\ \E i \in 1..(3 * Kzeta) : Sta[1].fqs[1][i] # RZero

(* ---------------------------------------------------------------------- *)
(* The methods solve_steady accepts (SpecSteady)                            *)
(* ---------------------------------------------------------------------- *)

\* C25: a solve_steady call with a method other than 'direct' on a model whose
\* predictor was removed or which is stored sparse, and a call with a method name
\* other than 'direct', 'minsize', 'recursive', 'subsystem' on any model, ends in an
\* error, returns no state or output and leaves the model as it was.
C25_OnlyDirect ==
  [][(/\ ncalls' = ncalls + 1 /\ call'.op = "solve_steady"
      /\ \/ (remove_predictor \/ use_sparse) /\ call'.method # "direct"
         \/ call'.method \notin {"direct", "minsize", "recursive", "subsystem"})
       => /\ err' = "NameError"
          /\ ret' = None /\ rec' = None
          /\ UNCHANGED <<SS, B_predictor, dt, integr_order, Nx, Nu, Ny, remove_predictor,
                         use_sparse, ScalingFacts, SSb, T, gv, Zc, Zo>>]_vars

\* 'minsize' was refused on a sparse direct-form model
C25_Witness ==
  /\ call.op = "solve_steady" /\ call.method = "minsize"
  /\ use_sparse /\ ~remove_predictor /\ SS # None
  /\ err = "NameError" /\ ret = None /\ rec = None

\* an unknown method was refused on a dense direct-form model
C25_WitnessUnknown ==
  /\ call.op = "solve_steady" /\ call.method = "newton"
  /\ ~use_sparse /\ ~remove_predictor /\ SS # None
  /\ err = "NameError" /\ ret = None

\* 'recursive' was refused on a predictor-removed model, without entering its loop
C25_WitnessRecursive ==
  /\ call.op = "solve_steady" /\ call.method = "recursive"
  /\ remove_predictor /\ err = "NameError" /\ ret = None /\ rec = None

(* ---------------------------------------------------------------------- *)
(* Dynamic.freqresp on a predictor-removed model (SpecFreq)                 *)
(* ---------------------------------------------------------------------- *)

\* C26: Dynamic.freqresp called on a model assembled with remove_predictor=True fails
\* its entry assertion and returns no response.
C26_FreqrespNeedsPredictor ==
  (call.op = "Dynamic.freqresp" /\ remove_predictor) =>
     /\ err = "AssertionError"
     /\ ret = None

\* the call was made on an assembled and non-dimensionalised predictor-removed model,
\* with a grid of two frequencies, and failed
C26_Witness ==
  /\ call.op = "Dynamic.freqresp" /\ remove_predictor
  /\ SS # None /\ pre # None /\ Len(call.usta) = 2
  /\ err = "AssertionError" /\ ret = None

(* ---------------------------------------------------------------------- *)
(* Total forces after repeated solves (SpecStatic)                          *)
(* ---------------------------------------------------------------------- *)

\* per component, the sum over every vertex of every surface of the force vector f
NodalSum(f) ==
  Vec(3, LAMBDA cc :
    SumR(LAMBDA sf :
      SumR(LAMBDA v : f[3 * SumN(LAMBDA t : KKzeta(t), sf - 1) + (cc - 1) * KKzeta(sf) + v],
           1, KKzeta(sf)),
      1, n_surf))

\* C27: after a total_forces() that follows at least one solve(), whatever the order
\* of the solve, reshape and total_forces calls before it, Ftot is the sum of the nodal
\* forces of the fqs of the most recent solve.  (Mtot is accumulated from the same
\* Fqs entries as Ftot.)
C27_TotalForcesOfLastSolve ==
  (Sta # None /\ call.op = "Static.total_forces" /\ Sta[1].fqs # None) =>
     /\ err = "none"
     /\ Sta[1].Ftot = Some(NodalSum(Sta[1].fqs[1]))

\* a total_forces() that summed the Fqs reshaped from an earlier solve: the instance's
\* fqs has another nodal sum
C27_StaleForces ==
  /\ Sta # None /\ call.op = "Static.total_forces" /\ err = "none"
  /\ Sta[1].fqs # None /\ Sta[1].Ftot # None
  /\ Sta[1].Fqs # Static_reshape(Sta[1]).sta.Fqs
  /\ Sta[1].Ftot[1] # NodalSum(Sta[1].fqs[1])

(* ---------------------------------------------------------------------- *)
(* balfreq and the integration order (Spec)                                 *)
(* ---------------------------------------------------------------------- *)

\* C28: a balfreq call with both weight vectors on a non-predictor-removed model of
\* integration order 1 or 2 completes without error and sets SSb, T and gv.
C28_BalfreqBothOrders ==
  (call.op = "balfreq" /\ call.weights /\ ~remove_predictor /\ integr_order \in {1, 2}) =>
     /\ err = "none"
     /\ SSb # None /\ T # None /\ gv # None

\* a first-order direct-form model whose balfreq, with weights and a frequency in each
\* band, ended in NameError and set nothing
C28_FirstOrderFails ==
  /\ call.op = "balfreq" /\ call.weights /\ ~remove_predictor /\ integr_order = 1
  /\ call.Nk_low = 1 /\ call.Nk_high = 1
  /\ err = "NameError"
  /\ SSb = None /\ T = None /\ gv = None

(* ---------------------------------------------------------------------- *)
(* The loop of solve_steady(method='recursive') (SpecSteady)                *)
(* ---------------------------------------------------------------------- *)

\* the square er2 of the last change of total force is no larger than tol squared
NoLargerThanTol(er2) == er2[1] <= er2[2] \div (tol_inv * tol_inv)

\* C29: the loop of method 'recursive' never applies the state update more than 1000
\* times, and when it is left the run is treated as converged (no 'Solution not
\* found!' message) exactly when the last change of total force is no larger than the
\* tolerance 1e-4.
C29_RecursiveStopsAndJudges ==
  [][/\ rec' # None => rec'[1].nn <= max_iter
     /\ (rec # None /\ rec' = None) =>
          ((printed' = None) <=> NoLargerThanTol(rec[1].er2))]_vars

\* the loop never runs beyond its cap, and every iteration counts
C29_IterationCap ==
  [][/\ rec' # None => rec'[1].nn <= max_iter
     /\ (rec # None /\ rec' # None) => rec'[1].nn = rec[1].nn + 1]_vars

\* a run that left the loop after its first iteration with a change of total force of
\* exactly 1e-4 and reported that no solution was found
C29_StoppedAtTolerance ==
  /\ call.op = "solve_steady" /\ call.method = "recursive" /\ rec = None
  /\ ret # None /\ printed # None
  /\ printed[1].er2 = <<1, tol_inv * tol_inv>>

\* a run that used all 1000 iterations
C29_CapReached ==
  rec # None /\ rec[1].nn = max_iter

(* ---------------------------------------------------------------------- *)
(* TakeOffTrajectoryController (controllers/takeofftrajectorycontroller.py) *)
(* The instance is [settings, input_history, t_limits, trajectory_interp,    *)
(* trajectory_vel_interp, controlled_body, controlled_node, log]; mb_dict    *)
(* is a function from constraint names to [body_number, node_number,         *)
(* velocity]; the results of its methods are records with an err field.      *)
(* ---------------------------------------------------------------------- *)

MaxControls == 3
MaxTs == 5

\* np.nan
NaN == "nan"

\* the trajectory file with the given times whose x, y, z follow the cubic polynomials
\* with coefficients c[1], c[2], c[3] (constant term first): rows (time, x, y, z)
PolyEval(c, t) ==
  RAdd(c[1], RMul(t, RAdd(c[2], RMul(t, RAdd(c[3], RMul(t, c[4]))))))
TrajectoryFile(times, c) ==
  [i \in 1..Len(times) |->
     <<times[i], PolyEval(c[1], times[i]), PolyEval(c[2], times[i]), PolyEval(c[3], times[i])>>]

\* the trajectory files of the model: x = t^2, y = 3 t, z = t - t^3 sampled on
\* 0, 1/2, 1, 3/2, 2, and x = 1 + t, y = t^2 / 2, z = 2 sampled on 1, 2, 3, 4
TrajectoryFiles ==
  { TrajectoryFile(<< RZero, <<1, 2>>, ROne, <<3, 2>>, RInt(2) >>,
                   << <<RZero, RZero, ROne, RZero>>,
                      <<RZero, RInt(3), RZero, RZero>>,
                      <<RZero, ROne, RZero, RInt(-1)>> >>),
    TrajectoryFile(<< ROne, RInt(2), RInt(3), RInt(4) >>,
                   << <<ROne, ROne, RZero, RZero>>,
                      <<RZero, RZero, <<1, 2>>, RZero>>,
                      <<RInt(2), RZero, RZero, RZero>> >>) }

\* the settings after to_custom_types
InDicts ==
  [dt : {<<1, 2>>, ROne},
   trajectory_method : {"lagrange", "spline"},
   controlled_constraint : {"constraint_00", "constraint_01"},
   write_controller_log : BOOLEAN]

\* the multibody dictionaries of the run the controller is attached to
Constraint(body, node) ==
  [body_number |-> body, node_number |-> node, velocity |-> <<RZero, RZero, RZero>>]
MbDicts ==
  { [k \in {"constraint_00", "constraint_01"} |->
       IF k = "constraint_00" THEN Constraint(0, 3) ELSE Constraint(1, 0)],
    [k \in {"constraint_00"} |-> Constraint(0, 3)],
    [k \in {"constraint_01"} |-> Constraint(1, 0)] }
ControlledStates ==
  { [structural |-> [mb_dict |-> m], aero |-> "aero"] : m \in MbDicts }

\* np.min and np.max of a column of numbers
np_min(col) == CHOOSE m \in { col[i] : i \in DOMAIN col } : \A i \in DOMAIN col : RLeq(m, col[i])
np_max(col) == CHOOSE m \in { col[i] : i \in DOMAIN col } : \A i \in DOMAIN col : RLeq(col[i], m)

\* interpolate.UnivariateSpline(x, y, k=3, s=0.5) for points (x, y) of one cubic
\* polynomial: the least-squares cubic has no residual, so the spline has no interior
\* knot and is that polynomial, found here through its first four points; the value
\* is the coefficients, constant term first
UnivariateSpline(x, y) ==
  linsolve(Mat(4, 4, LAMBDA i, j : IF j = 1 THEN ROne
                                   ELSE IF j = 2 THEN x[i]
                                   ELSE IF j = 3 THEN RMul(x[i], x[i])
                                   ELSE RMul(x[i], RMul(x[i], x[i]))),
           Vec(4, LAMBDA i : y[i]))[1]

\* spline.derivative(), as coefficients of a cubic too
derivative(c) == <<c[2], RMul(RInt(2), c[3]), RMul(RInt(3), c[4]), RZero>>

\* process_trajectory(dxdt=True)
process_trajectory(self) ==
  LET col(j) == [i \in DOMAIN self.input_history |-> self.input_history[i][j]]
      interp == Vec(3, LAMBDA i_dim : UnivariateSpline(col(1), col(i_dim + 1)))
  IN [self EXCEPT !.t_limits = <<np_min(col(1)), np_max(col(1))>>,
                  !.trajectory_interp = Some(interp),
                  !.trajectory_vel_interp = Some(Vec(3, LAMBDA i_dim : derivative(interp[i_dim])))]

\* __init__ then initialise(in_dict); file is the content of trajectory_input_file, or
\* None when np.loadtxt finds no such file: the handler of OSError then looks up the
\* setting 'time_history_input_file', which no settings dictionary has
initialise(in_dict, file) ==
  IF file = None THEN [err |-> "KeyError", self |-> None]
  ELSE [err |-> "none",
        self |-> Some(process_trajectory(
                   [settings |-> in_dict,
                    input_history |-> file[1],
                    t_limits |-> <<RZero, RZero>>,
                    trajectory_interp |-> None,
                    trajectory_vel_interp |-> None,
                    controlled_body |-> None,
                    controlled_node |-> None,
                    log |-> IF in_dict.write_controller_log THEN Some(<<>>) ELSE None]))]

\* a wrapper whose interval is open at t_max
controller_wrapper_half_open(self, t) ==
  IF self.settings.trajectory_method = "lagrange"
    THEN IF ~(RLeq(self.t_limits[1], t) /\ RLeq(t, self.t_limits[2]) /\ t # self.t_limits[2])
           THEN [err |-> "none", output_traj |-> <<NaN, NaN, NaN>>, end_of_traj |-> TRUE]
         ELSE [err |-> "none",
               output_traj |-> Vec(3, LAMBDA i_dim :
                                 PolyEval(self.trajectory_vel_interp[1][i_dim], t)),
               end_of_traj |-> FALSE]
  ELSE [err |-> "NotImplementedError", output_traj |-> <<>>, end_of_traj |-> FALSE]

\* controller_wrapper(t)
controller_wrapper(self, t) ==
  IF self.settings.trajectory_method = "lagrange"
    THEN IF ~(RLeq(self.t_limits[1], t) /\ RLeq(t, self.t_limits[2]))
           THEN [err |-> "none", output_traj |-> <<NaN, NaN, NaN>>, end_of_traj |-> TRUE]
         ELSE [err |-> "none",
               output_traj |-> Vec(3, LAMBDA i_dim :
                                 PolyEval(self.trajectory_vel_interp[1][i_dim], t)),
               end_of_traj |-> FALSE]
  ELSE [err |-> "NotImplementedError", output_traj |-> <<>>, end_of_traj |-> FALSE]

\* lc.remove_constraint(MBdict, constraint): the entry leaves the dictionary
remove_constraint(MBdict, constraint) ==
  [k \in (DOMAIN MBdict) \ {constraint} |-> MBdict[k]]

\* control(data, controlled_state) with data.ts = ts: the instance and the controlled
\* state afterwards, and what it returned (None: it raised err)
control(self, ts, cs) ==
  LET time == RMul(RInt(ts - 1), self.settings.dt)
      name == self.settings.controlled_constraint
      mb == cs.structural.mb_dict
  IN IF name \notin DOMAIN mb
       THEN [err |-> "none", self |-> self, controlled_state |-> cs, ret |-> Some(cs)]
     ELSE
       LET self1 == IF self.controlled_body = None \/ self.controlled_node = None
                      THEN [self EXCEPT !.controlled_body = Some(mb[name].body_number),
                                        !.controlled_node = Some(mb[name].node_number)]
                    ELSE self
           w == controller_wrapper(self1, time)
           removed == [cs EXCEPT !.structural.mb_dict = remove_constraint(mb, name)]
           written == [cs EXCEPT !.structural.mb_dict[name].velocity = w.output_traj]
       IN IF w.err # "none"
            THEN [err |-> w.err, self |-> self1, controlled_state |-> cs, ret |-> None]
          ELSE IF w.end_of_traj
            THEN [err |-> "none", self |-> self1, controlled_state |-> removed,
                  ret |-> Some(removed)]
          ELSE IF self1.log = None
            THEN [err |-> "AttributeError", self |-> self1, controlled_state |-> written,
                  ret |-> None]
          ELSE [err |-> "none",
                self |-> [self1 EXCEPT !.log = Some(Append(@[1], <<ts, time, w.output_traj>>))],
                controlled_state |-> written,
                ret |-> Some(written)]

\* controller = TakeOffTrajectoryController(); controller.initialise(in_dict)
ControllerInitialise(in_dict, file) ==
  /\ controller = None /\ controlled_state # None
  /\ \E res \in {initialise(in_dict, file)} :
        /\ controller' = res.self
        /\ err' = res.err
  /\ call' = [NoCall EXCEPT !.op = "initialise"]
  /\ ret' = None
  /\ UNCHANGED <<tsdata, controlled_state, exists, dt, integr_order, Nx, Nu, Ny,
                 remove_predictor, use_sparse, ScalingFacts, B_predictor, SS, SSb, T, gv,
                 Zc, Zo, Ti, x_n, u_n, y_n, twin_SS, twin_x, twin_y, caller_u, pre,
                 ncalls, SSb_shared, Sta, rec, printed, lin, Freq, hist>>

\* controller.control(data, controlled_state) at time step data.ts = ts
Control(ts) ==
  /\ controller # None /\ controlled_state # None
  /\ ncalls < MaxControls
  /\ \E res \in {control(controller[1], ts, controlled_state)} :
        /\ controller' = Some(res.self)
        /\ controlled_state' = res.controlled_state
        /\ ret' = res.ret
        /\ err' = res.err
  /\ call' = [NoCall EXCEPT !.op = "control", !.ts = ts]
  /\ ncalls' = ncalls + 1
  /\ UNCHANGED <<tsdata, exists, dt, integr_order, Nx, Nu, Ny,
                 remove_predictor, use_sparse, ScalingFacts, B_predictor, SS, SSb, T, gv,
                 Zc, Zo, Ti, x_n, u_n, y_n, twin_SS, twin_x, twin_y, caller_u, pre,
                 SSb_shared, Sta, rec, printed, lin, Freq, hist>>

NextControl ==
  \/ \E in_dict \in InDicts, file \in {None} \cup { Some(f) : f \in TrajectoryFiles } :
        ControllerInitialise(in_dict, file)
  \/ \E ts \in 0..MaxTs : Control(ts)

InitControl ==
  /\ tsdata \in [surfs : {<<[M |-> 1, N |-> 1, Mstar |-> 1]>>}, wake : {"regular"}]
  /\ NoLinearModel
  /\ controller = None
  /\ controlled_state \in ControlledStates

SpecControl == InitControl /\ [][NextControl]_vars

\* the times of the trajectory file, and whether t lies within them (both ends included)
FileTimes == { controller[1].input_history[i][1] : i \in DOMAIN controller[1].input_history }
WithinFile(t) ==
  /\ \E a \in FileTimes : RLeq(a, t)
  /\ \E b \in FileTimes : RLeq(t, b)

C30_VelocityOfFile ==
  controller # None =>
    \E f \in TrajectoryFiles :
      /\ controller[1].input_history = f
      /\ f = TrajectoryFile([i \in DOMAIN f |-> f[i][1]], controller[1].trajectory_interp[1])

C30_WitnessAtEnd ==
  /\ controller # None /\ call.op = "control" /\ err = "none"
  /\ RMul(RInt(call.ts - 1), controller[1].settings.dt) = controller[1].t_limits[2]
  /\ controller[1].settings.controlled_constraint
       \in DOMAIN controlled_state.structural.mb_dict
  /\ controlled_state.structural.mb_dict[controller[1].settings.controlled_constraint].velocity
       # <<RZero, RZero, RZero>>

====
